---- MODULE Spec2Model ----
(***************************************************************************)
(* Model of the cDAQ monitoring service.                                   *)
(*                                                                         *)
(* Part 1: DamageLogger (backend/daq/damage_logger.py): the cumulative     *)
(* damage record kept in memory and its persistence in the files           *)
(* damage_cumulative.txt (primary), damage_cumulative.bak (backup) and     *)
(* damage_cumulative.txt.tmp (staging).  Every file operation of the       *)
(* write protocol is a step of its own, so that a crash can fall between   *)
(* any two of them.                                                        *)
(*                                                                         *)
(* Angles are whole degrees; damage values are whole multiples of          *)
(* d = 1e-6; time is a logical clock.  Bin b of the code (0-based) is      *)
(* index b+1 of the sequences here.                                        *)
(***************************************************************************)
EXTENDS Integers, Sequences, FiniteSets, TLC

VARIABLES
    dphi_deg,       \* DamageLogger.dphi_deg (constructor argument)
    cum_phi,        \* DamageLogger.cum_phi
    cum_damage,     \* DamageLogger.cum_damage
    cum_timestamp,  \* DamageLogger.cum_timestamp
    damage_file,    \* content of damage_cumulative.txt
    backup_file,    \* content of damage_cumulative.bak
    tmp_file,       \* content of damage_cumulative.txt.tmp
    pc,             \* where the logger's thread is
    op,             \* the method that is running or ran last
    data,           \* local `data` of _init_cumulative
    fatigue,        \* the dict passed to update_cumulative (changed in place)
    clock,          \* wall clock (datetime.now(), the window's ts)
    obs,            \* history of the run, read by the properties only
    queue,          \* AnalysisWorker.queue, oldest chunk first
    aw_running,     \* AnalysisWorker.running
    spc,            \* where the sampler thread is in AnalysisWorker.submit
    sdata,          \* submit's `data`: the chunk being submitted
    produced,       \* chunks the sampler has delivered so far
    wpc,            \* where the worker thread is in AnalysisWorker._loop
    now,            \* _loop's local `now`
    log_window_start, \* AnalysisWorker.log_window_start
    start_ts,       \* _loop's local `start_ts`
    log_stats,      \* AnalysisWorker.log_stats: the chunks it summarises
    analysis_buffers, \* AnalysisWorker.analysis_buffers: the chunks they hold
    last_fatigue,   \* AnalysisWorker.last_fatigue
    csv_file,       \* the rows appended to the daily CSV file
    iot_log,        \* the payloads handed to iot.publish
    wobs,           \* history of the worker, read by the properties only
    dev_running,    \* DAQDevice.running, per device
    runner_running, \* DAQRunner.running, per device
    task,           \* DAQRunner.task, per device: 0 (None) or the run that made it
    thread,         \* DAQRunner.thread, per device: 0 (None) or the run's thread
    rthread,        \* where the sampler thread of each run of each device is
    runs,           \* sampler threads started so far, per device
    api,            \* the call of the manager that is under way
    dobs,           \* history of the devices, read by the properties only
    samples_per_read, \* DAQDevice.samples_per_read
    n_limit,        \* int(eff_rate * fft_window_s), the samples of the viewing window
    decimation,     \* DAQDevice.decimation
    decim_kernel,   \* DAQDevice._decim_kernel (<<>> is None)
    decim_state,    \* DAQDevice._decim_state, per channel
    buffers,        \* DAQDevice.buffers, per channel, oldest sample first
    disp_buffers,   \* DAQDevice.disp_buffers, per channel
    storage_buffers, \* DAQDevice.storage_buffers, per channel
    opc,            \* where the sampler thread is in DAQDevice._on_samples
    och,            \* _on_samples' loop index `i` of lines 165-166
    decimated,      \* _on_samples' local `decimated`
    kpc,            \* where the storage thread is in capture_snapshot
    kch,            \* capture_snapshot's position in self.storage_buffers
    snap,           \* capture_snapshot's local `data`
    sobs,           \* history of the stream path, read by the properties only
    out_dir,        \* the entries of StorageService.output_dir
    today,          \* the local date's year and month
    retention_months, \* StorageService.retention_months
    rpc,            \* where the storage thread is in _run_once
    robs,           \* history of the cleanup, read by the properties only
    stats_every_n,  \* WindService._loop's stats_every_n
    wind_running,   \* WindService._running
    wind_connected, \* WindService.connected
    wind_last_sample, \* WindService.last_sample (<<>> is None)
    wind_last_stats, \* WindService.last_stats (<<>> is {})
    wind_window,    \* WindService._window, oldest sample first
    wind_counter,   \* _loop's local `counter`
    wind_pc,        \* where the wind thread is in _loop
    wind_emit,      \* the event handed to _emit last
    wind_obs,       \* history of the wind service, read by the properties only
    rf_sig,         \* rainflow_ranges_counts' `sig` (stress_phi of one direction)
    rf_tp,          \* rainflow_ranges_counts' `tp`
    rf_stack,       \* rainflow_ranges_counts' `stack`
    rf_ranges,      \* rainflow_ranges_counts' `ranges`
    rf_counts,      \* rainflow_ranges_counts' `counts`, in half cycles
    rf_i,           \* the position in tp of the loop of line 86
    rf_terms,       \* fatigue_damage's `Dk`, as the terms n / Ni added to it
    rf_pc,          \* where fatigue_damage is for the direction
    iot_type,       \* iot._config["type"]
    sub_client,     \* whether iot._sub_client is set
    stream_enabled_local,   \* iot._stream_enabled_local
    stream_enabled_remote,  \* iot._stream_enabled_remote
    control_display_names,  \* iot._control_display_names
    iot_msg,        \* topic and display_name of on_message's last message
    pub_topic,      \* publish's `topic`
    pub_out,        \* what the publish call has emitted
    pub_pc,         \* where the publish call is
    rate_cfg,       \* the configured sample_rate and effective_sample_rate
    sys_cfg,        \* _build_device_manager's `sys_cfg`, its two rates
    csv_files,      \* the rows of data/<date>.csv, for each date
    ww_pc,          \* where each device's write_window call is
    ww_day,         \* write_window's `date_str`, for each device
    ww_file_exists, \* write_window's `file_exists`, for each device
    upc,            \* where the worker thread is in its window boundary
    u_cum,          \* the list update_cumulative has read at line 118
    xpc,            \* where the API thread is in DAQDevice.reset_damage
    xobs,           \* history of the two threads, read by the properties only
    channels_cfg,   \* unit of channel 0 and of channel 1, as configured
    buffers01,      \* analysis_buffers[0] and [1] of the current window
    fd_in,          \* ax and ay as fatigue_damage received them
    disp_in,        \* the arrays _compute_disp_stats gave to acc_to_disp
    bpc,            \* where the worker is in the window
    lg_cum,         \* cum_damage of each device's DamageLogger
    lg_pc,          \* where each device's logger is in _write_cumulative
    lg_updates,     \* windows added so far, all devices together
    dir_files       \* primary, backup and .tmp file of each data directory

loggerVars == <<dphi_deg, cum_phi, cum_damage, cum_timestamp, damage_file,
                backup_file, tmp_file, pc, op, data, fatigue, obs>>

samplerVars == <<spc, sdata, produced>>

workerVars == <<aw_running, wpc, now, log_window_start, start_ts, log_stats,
                analysis_buffers, last_fatigue, csv_file, iot_log>>

pipeVars == <<queue, samplerVars, workerVars, wobs>>

runnerVars == <<runner_running, task, thread, rthread, runs>>

devVars == <<dev_running, runnerVars, api, dobs>>

streamVars == <<samples_per_read, n_limit, decimation, decim_kernel, decim_state,
                buffers, disp_buffers, storage_buffers, opc, och, decimated,
                kpc, kch, snap, sobs>>

retVars == <<out_dir, today, retention_months, rpc, robs>>

windVars == <<stats_every_n, wind_running, wind_connected, wind_last_sample,
              wind_last_stats, wind_window, wind_counter, wind_pc, wind_emit,
              wind_obs>>

rfVars == <<rf_sig, rf_tp, rf_stack, rf_ranges, rf_counts, rf_i, rf_terms, rf_pc>>

iotVars == <<iot_type, sub_client, stream_enabled_local, stream_enabled_remote,
             control_display_names, iot_msg, pub_topic, pub_out, pub_pc>>

partVars == <<streamVars, retVars, windVars, rfVars, iotVars>>

rateVars == <<rate_cfg, sys_cfg>>

csvVars == <<csv_files, ww_pc, ww_day, ww_file_exists>>

raceVars == <<upc, u_cum, xpc, xobs>>

unitVars == <<channels_cfg, buffers01, fd_in, disp_in, bpc>>

shareVars == <<lg_cum, lg_pc, lg_updates, dir_files>>

lateVars == <<unitVars, shareVars>>

auxVars == <<rateVars, csvVars, raceVars, lateVars>>

svcVars == <<partVars, auxVars>>

coreVars == <<loggerVars, clock, pipeVars, devVars>>

vars == <<coreVars, svcVars>>

memVars == <<cum_phi, cum_damage, cum_timestamp>>
fileVars == <<damage_file, backup_file, tmp_file>>

-----------------------------------------------------------------------------
(* Bounds of the model *)

\* number of update_cumulative / reset_cumulative calls in a run
MaxClock == 3

-----------------------------------------------------------------------------
(* Program constants *)

FullCircle == 360
HalfCircle == 180

\* bin widths the model runs with (the code's is 5 degrees, 72 bins;
\* 90 and 180 degrees give 4 and 2 bins, the 2:1 ratio of 72 and 36 bins)
DphiSet == {90, 180}

\* per-bin damage of one window, in units of d = 1e-6
DValues == {0, 1}

DeviceName == "Dev1"

-----------------------------------------------------------------------------
(* Python builtins used by the logger *)

Abs(x) == IF x < 0 THEN -x ELSE x

Min(a, b) == IF a < b THEN a ELSE b

Range(s) == {s[i] : i \in 1..Len(s)}

\* bug variant of MaxOf: min() in place of max()
MaxOf_Min(s) == CHOOSE m \in Range(s) : \A x \in Range(s) : m <= x

\* max(list)
MaxOf(s) == CHOOSE m \in Range(s) : \A x \in Range(s) : x <= m

\* list.index(v): the first position holding v
IndexOf(s, v) == CHOOSE i \in 1..Len(s) : s[i] = v /\ \A j \in 1..(i - 1) : s[j] # v

\* bug variant of ZipAdd: the window is subtracted
ZipAdd_Subtract(cs, ds) == [i \in 1..Min(Len(cs), Len(ds)) |-> cs[i] - ds[i]]

\* [c + d for c, d in zip(cs, ds)]
ZipAdd(cs, ds) == [i \in 1..Min(Len(cs), Len(ds)) |-> cs[i] + ds[i]]

RECURSIVE SumOf(_)
SumOf(s) == IF s = <<>> THEN 0 ELSE Head(s) + SumOf(Tail(s))

Max(a, b) == IF a > b THEN a ELSE b

\* s[-n:] for n > 0
LastN(s, n) == SubSeq(s, Max(1, Len(s) - n + 1), Len(s))

\* s[::m]
EveryMth(s, m) == [j \in 1..((Len(s) + m - 1) \div m) |-> s[(j - 1) * m + 1]]

\* np.zeros(n)
Zeros(n) == [i \in 1..n |-> 0]

\* np.convolve(x, h, mode="valid"): the shorter argument slides, reversed,
\* over the longer one
ConvValid(x, h) ==
    LET long == IF Len(x) >= Len(h) THEN x ELSE h
        short == IF Len(x) >= Len(h) THEN h ELSE x
        t == Len(short)
    IN [j \in 1..(Len(long) - t + 1) |->
            SumOf([k \in 1..t |-> long[j + k - 1] * short[t - k + 1]])]

\* deque(maxlen=maxlen).extend(items)
DequeExtend_DropsNewest(buf, items, maxlen) == SubSeq(buf \o items, 1, Min(Len(buf \o items), maxlen))

DequeExtend(buf, items, maxlen) == LastN(buf \o items, maxlen)

-----------------------------------------------------------------------------
(* Bin layouts *)

\* DamageLogger._default_bins
DefaultBins(dphi) ==
    LET bins == FullCircle \div dphi
    IN  [phi |-> [i \in 1..bins |-> (i - 1) * dphi],
         dmg |-> [i \in 1..bins |-> 0]]

\* fatigue_damage: phi_edges = arange(0, 2pi + dphi, dphi),
\* phi_center = phi_edges[:-1] + dphi / 2
FatigueBins(dphi) ==
    LET nEdges == ((FullCircle + dphi) + (dphi - 1)) \div dphi
    IN  [i \in 1..(nEdges - 1) |-> (i - 1) * dphi + (dphi \div 2)]

\* the dicts fatigue_damage can return, reduced to the keys the logger reads
NoFatigue ==
    [phi_deg_list |-> <<>>, D_phi |-> <<>>, D_phi_cum |-> <<>>,
     D_cum_max |-> 0, phi_deg_cum |-> 0]

\* the D_phi vectors of n bins the model feeds: no damage, or damage in one
\* of the first two bins
DVectors(n) ==
    {d \in [1..n -> DValues] :
        /\ Cardinality({i \in 1..n : d[i] # 0}) <= 1
        /\ \A i \in 3..n : d[i] = 0}

Windows ==
    {NoFatigue} \cup
    UNION {{[NoFatigue EXCEPT !.phi_deg_list = FatigueBins(dphi), !.D_phi = d] :
                d \in DVectors(Len(FatigueBins(dphi)))} : dphi \in DphiSet}

-----------------------------------------------------------------------------
(* Files and JSON *)

Absent == [exists |-> FALSE, text |-> <<>>]

File(text) == [exists |-> TRUE, text |-> text]

EmptyPayload ==
    [timestamp |-> 0, device |-> "", phi_deg_list |-> <<>>, D_phi_cum |-> <<>>,
     D_cum_max |-> 0, phi_deg_cum |-> 0]

NoData == [ok |-> FALSE, data |-> EmptyPayload]

\* json.dumps(payload): the text as a sequence of tokens
Dumps(p) ==
    <<"{", p.timestamp, p.device, p.phi_deg_list, p.D_phi_cum, p.D_cum_max,
      p.phi_deg_cum, "}">>

\* json.loads(text): raises on a text that is cut short
Loads(text) ==
    IF Len(text) = 8 /\ text[1] = "{" /\ text[8] = "}"
    THEN [ok |-> TRUE,
          data |-> [timestamp |-> text[2], device |-> text[3],
                    phi_deg_list |-> text[4], D_phi_cum |-> text[5],
                    D_cum_max |-> text[6], phi_deg_cum |-> text[7]]]
    ELSE NoData

\* DamageLogger._try_load_json
TryLoadJson(f) == IF ~f.exists THEN NoData ELSE Loads(f.text)

\* what a write_text of `text` leaves in the file when it is cut after the
\* open (which truncates) and before the close: nothing, or the text cut short
Prefixes(text) == {SubSeq(text, 1, k) : k \in {0, Len(text) \div 2}}

\* the payload of _write_cumulative
Payload(ts, phi, dmg) ==
    [timestamp |-> ts, device |-> DeviceName, phi_deg_list |-> phi,
     D_phi_cum |-> dmg,
     D_cum_max |-> IF dmg # <<>> THEN MaxOf(dmg) ELSE 0,
     phi_deg_cum |-> IF dmg # <<>> THEN phi[IndexOf(dmg, MaxOf(dmg))] ELSE 0]

-----------------------------------------------------------------------------
(* update_cumulative: the arithmetic *)

\* bug variant of CircDist: the distance on the line, not on the circle
CircDist_Linear(p, new_phi) == Abs(p - new_phi)

\* abs(((p - new_phi + 180.0) % 360.0) - 180.0)
CircDist(p, new_phi) == Abs((((p - new_phi) + HalfCircle) % FullCircle) - HalfCircle)

\* the inner loop over old_phi, from position j on
RECURSIVE BestLoop(_, _, _, _, _)
BestLoop(old_phi, new_phi, j, best_j, best_dist) ==
    IF j > Len(old_phi) THEN best_j
    ELSE LET dist == CircDist(old_phi[j], new_phi)
         IN  IF best_dist = -1 \/ dist < best_dist
             THEN BestLoop(old_phi, new_phi, j + 1, j, dist)
             ELSE BestLoop(old_phi, new_phi, j + 1, best_j, best_dist)

\* best_j for one new bin centre (best_dist = inf is written -1)
BestJ(old_phi, new_phi) == BestLoop(old_phi, new_phi, 1, 1, -1)

\* the remap of lines 99-116: the new damage list before the window is added
Remap(old_phi, old_damage, phi_list) ==
    IF old_phi # <<>> /\ old_damage # <<>> /\ Len(old_phi) = Len(old_damage)
    THEN [i \in 1..Len(phi_list) |-> old_damage[BestJ(old_phi, phi_list[i])]]
    ELSE [i \in 1..Len(phi_list) |-> 0]

\* the test of line 97
NeedRemap(phi, dmg, w) ==
    Len(dmg) # Len(w.D_phi) \/ Len(phi) # Len(w.phi_deg_list)

\* cum_phi and cum_damage after update_cumulative's lines 97-118
Accumulate(phi, dmg, w) ==
    LET phi1 == IF NeedRemap(phi, dmg, w) THEN w.phi_deg_list ELSE phi
        dmg1 == IF NeedRemap(phi, dmg, w) THEN Remap(phi, dmg, w.phi_deg_list) ELSE dmg
    IN  [phi |-> phi1, dmg |-> ZipAdd(dmg1, w.D_phi)]

-----------------------------------------------------------------------------
(* History read by the properties *)

ObsInit ==
    [pre |-> [phi |-> <<>>, dmg |-> <<>>],  \* memory before the last update/reset
     post |-> <<>>,                         \* cum_damage after it
     interrupted |-> FALSE,                 \* the last update was cut by a crash
     afterReset |-> FALSE,                  \* the last call was a reset that returned
     run |-> 0,                             \* unit windows added in a row to a zero record
     deleted |-> FALSE,                     \* the primary was deleted before this start
     failed |-> FALSE,                      \* the last write raised
     lastGood |-> <<>>]                     \* the text of the last write that succeeded

\* the window of scenario 4: D_phi = [d, 0, ...] on the layout of the analysis
UnitWindow(w) ==
    /\ w.D_phi # <<>>
    /\ w.D_phi = [i \in 1..Len(w.D_phi) |-> IF i = 1 THEN 1 ELSE 0]

AllZero(s) == \A i \in 1..Len(s) : s[i] = 0

WritePcs == {"wc", "backup_open", "tmp_ready", "tmp_open", "tmp_written"}

-----------------------------------------------------------------------------
(* The analysis worker before start() *)

WobsInit ==
    [lost |-> {},             \* chunks whose submit returned without enqueuing them
     discarded |-> {},        \* chunks removed from the queue by submit
     notOldest |-> FALSE,     \* a submit removed a chunk that was not the oldest
     boundary |-> "none",     \* the last window boundary: none, open, closed
     events |-> <<>>]         \* what the last window boundary did, in order

\* state after AnalysisWorker(...), before start()
PipeInit ==
    /\ queue = <<>>
    /\ aw_running = FALSE
    /\ spc = "s_idle"
    /\ sdata = 0
    /\ produced = 0
    /\ wpc = "w_none"
    /\ now = 0
    /\ log_window_start = 0
    /\ start_ts = 0
    /\ log_stats = <<>>
    /\ analysis_buffers = <<>>
    /\ last_fatigue = NoFatigue
    /\ csv_file = <<>>
    /\ iot_log = <<>>
    /\ wobs = WobsInit

-----------------------------------------------------------------------------
(* The devices before the first start *)

\* the configured devices, in the order of the configuration
DevOrder == <<"Dev1", "Dev2">>

Devices == Range(DevOrder)

\* DAQRunner.start calls that create a thread, per device
MaxRuns == 2

Runs == 1..MaxRuns

DobsInit ==
    [err |-> [d \in Devices |-> "none"],       \* the sampling error that stopped the device
     down |-> [d \in Devices |-> FALSE],       \* the failure path has run to its end
     late |-> [d \in Devices |-> FALSE],       \* a chunk was delivered after that
     joinedLive |-> [d \in Devices |-> FALSE], \* the last stop joined a live thread
     stopAfter |-> [d \in Devices |-> "no"],   \* the last stop came during / after a read failure
     stopped |-> [d \in Devices |-> FALSE],    \* a stop has returned
     restart |-> [d \in Devices |-> "none"],   \* what a start after an error did
     startAll |-> "none"]                      \* start_all: none, running, returned, raised

\* state after DeviceManager(...)
DevInit ==
    /\ dev_running = [d \in Devices |-> FALSE]
    /\ runner_running = [d \in Devices |-> FALSE]
    /\ task = [d \in Devices |-> 0]
    /\ thread = [d \in Devices |-> 0]
    /\ rthread = [d \in Devices |-> [t \in Runs |-> "r_none"]]
    /\ runs = [d \in Devices |-> 0]
    /\ api = [op |-> "none", idx |-> 1, pc |-> "none"]
    /\ dobs = DobsInit

-----------------------------------------------------------------------------
(* The stream path of a device before the first chunk *)

\* the channels of the device
Channels == 1..2

\* samples_per_read of the configurations the model runs with
MaxSpr == 2

\* int(eff_rate * fft_window_s) of the configurations the model runs with
MaxWin == 2

\* decimation factors the hardware rate can give
MaxDecimation == 2

\* chunks the sampler delivers in a run of the stream path
MaxStreamChunks == 2

StreamCfgs == [spr : 1..MaxSpr, win : 1..MaxWin]

\* samples_per_read and the window the model starts with outside the stream
\* path's own specification
DefaultStreamCfg == [spr |-> MaxSpr, win |-> MaxWin]

SobsInit ==
    [x_in |-> [c \in Channels |-> <<>>],     \* the samples read since the decimator was set up
     y_out |-> [c \in Channels |-> <<>>],    \* the decimator's outputs since then
     acc_all |-> [c \in Channels |-> <<>>],  \* every sample appended to buffers[c]
     disp_all |-> [c \in Channels |-> <<>>], \* every sample appended to disp_buffers[c]
     appended |-> [c \in Channels |-> 0],    \* chunks appended to storage_buffers[c]
     seen |-> [c \in Channels |-> 0],        \* chunks in storage_buffers[c] when the snapshot read it
     chunks |-> 0]                           \* chunks delivered

\* DAQDevice.__init__, lines 33-63
StreamInit(cfg) ==
    /\ samples_per_read = cfg.spr
    /\ n_limit = cfg.win
    /\ decimation = 1
    /\ decim_kernel = <<>>
    /\ decim_state = [c \in Channels |-> <<>>]
    /\ buffers = [c \in Channels |-> <<>>]
    /\ disp_buffers = [c \in Channels |-> <<>>]
    /\ storage_buffers = [c \in Channels |-> <<>>]
    /\ opc = "o_idle"
    /\ och = 1
    /\ decimated = [c \in Channels |-> <<>>]
    /\ kpc = "k_idle"
    /\ kch = 1
    /\ snap = <<>>
    /\ sobs = SobsInit

-----------------------------------------------------------------------------
(* The storage service's output directory before the first run *)

\* retention_months of the configurations the model runs with
MaxRetention == 3

\* months that pass in a run of the model
MaxMonths == 2

\* cfg.get("retention_months", 3)
DefaultRetention == 3

\* the month the model starts in
StartMonth == [year |-> 2024, month |-> 12]

RobsInit == [deleted |-> {}, months |-> 0]

\* StorageService.__init__ and start: output_dir exists and is empty
RetInit(r) ==
    /\ out_dir = {}
    /\ today = StartMonth
    /\ retention_months = r
    /\ rpc = "r_idle"
    /\ robs = RobsInit

-----------------------------------------------------------------------------
(* The wind service before start() *)

\* stats_every_n of the configurations the model runs with
MaxStatsN == 2

\* ticks of the wind loop in a run of the model
MaxTicks == 4

WindObsInit ==
    [ticks |-> 0,          \* ticks begun, over all runs of the loop
     succ |-> 0,           \* samples recorded by the running loop
     published |-> 0,      \* statistics published by the running loop
     all |-> <<>>,         \* every sample recorded
     statsOver |-> <<>>,   \* the newest stats_every_n of them when statistics were computed last
     failed |-> FALSE,     \* the connect or the read of the previous tick failed
     tried |-> FALSE,      \* connect was called in this tick
     read |-> "none",      \* the read of this tick: none, ok, failed
     fails |-> 0]          \* failed reads so far

\* WindService.__init__
WindInit(n) ==
    /\ stats_every_n = n
    /\ wind_running = FALSE
    /\ wind_connected = FALSE
    /\ wind_last_sample = <<>>
    /\ wind_last_stats = <<>>
    /\ wind_window = <<>>
    /\ wind_counter = 0
    /\ wind_pc = "l_none"
    /\ wind_emit = <<>>
    /\ wind_obs = WindObsInit

-----------------------------------------------------------------------------
(* The fatigue computation before its first call *)

RfInit ==
    /\ rf_sig = <<>>
    /\ rf_tp = <<>>
    /\ rf_stack = <<>>
    /\ rf_ranges = <<>>
    /\ rf_counts = <<>>
    /\ rf_i = 1
    /\ rf_terms = <<>>
    /\ rf_pc = "fd_idle"

-----------------------------------------------------------------------------
(* The module iot after its import: the globals of lines 18-36.  A string
   is a sequence of pieces: a character, or one of the two separators the
   code searches for. *)

None == [none |-> TRUE, v |-> <<>>]

Some(v) == [none |-> FALSE, v |-> v]

NoMessage == [topic |-> <<>>, display_name |-> None]

IotInit ==
    /\ iot_type = "log"
    /\ sub_client = FALSE
    /\ stream_enabled_local = FALSE
    /\ stream_enabled_remote = FALSE
    /\ control_display_names = {}
    /\ iot_msg = NoMessage
    /\ pub_topic = <<>>
    /\ pub_out = {}
    /\ pub_pc = "p_idle"

-----------------------------------------------------------------------------
MaxUpdates == 2

MaxBufLen == 2

MaxLogUpdates == 2

MaxCsvDays == 2

MaxCsvRows == 4

(* The rates of the default configuration, as _build_device_manager has
   passed them on at the launch *)

Missing == [kind |-> "missing", v |-> 0]

Number(n) == [kind |-> "number", v |-> n]

RateInit ==
    /\ rate_cfg = [sample_rate |-> Number(2000),
                   effective_sample_rate |-> Number(2000)]
    /\ sys_cfg = [sample_rate |-> 2000, effective_sample_rate |-> 2000]

\* no CSV file of any day yet, no write_window call under way
CsvInit ==
    /\ csv_files = [day \in 1..MaxCsvDays |-> <<>>]
    /\ ww_pc = [d \in Devices |-> "w_idle"]
    /\ ww_day = [d \in Devices |-> 1]
    /\ ww_file_exists = [d \in Devices |-> FALSE]

XobsInit ==
    [after_reset |-> FALSE,   \* reset_damage has returned, no boundary began since
     overlap |-> FALSE,       \* the last update and the last reset ran together
     updates |-> 0]           \* calls of update_cumulative so far

\* the worker between two boundaries, no reset_damage under way
RaceInit ==
    /\ upc = "u_idle"
    /\ u_cum = <<>>
    /\ xpc = "x_idle"
    /\ xobs = XobsInit

\* both channels in m/s2, nothing accumulated yet
UnitInit ==
    /\ channels_cfg = <<"m/s2", "m/s2">>
    /\ buffers01 = <<<<>>, <<>>>>
    /\ fd_in = <<<<>>, <<>>>>
    /\ disp_in = <<<<>>, <<>>>>
    /\ bpc = "b_accumulate"

\* DAQDevice._data_dir: the directory backend/data, whatever the device
DataDir(d) == "backend/data"

DataDirs == {DataDir(d) : d \in Devices}

NoRecord == [exists |-> FALSE, device |-> "", D_phi_cum |-> <<>>]

\* a first start: no file yet, every logger built with zeros in its one bin
ShareInit ==
    /\ lg_cum = [d \in Devices |-> <<0>>]
    /\ lg_pc = [d \in Devices |-> "idle"]
    /\ lg_updates = 0
    /\ dir_files = [dir \in DataDirs |->
                      [primary |-> NoRecord, backup |-> NoRecord, tmp |-> NoRecord]]

AuxInit ==
    /\ RateInit
    /\ CsvInit
    /\ RaceInit
    /\ UnitInit
    /\ ShareInit

-----------------------------------------------------------------------------
(* State after DamageLogger(...) on an empty data directory *)

CoreInit ==
    /\ dphi_deg \in DphiSet
    /\ cum_phi = DefaultBins(dphi_deg).phi
    /\ cum_damage = DefaultBins(dphi_deg).dmg
    /\ cum_timestamp = 0
    /\ damage_file = File(Dumps(Payload(0, DefaultBins(dphi_deg).phi, DefaultBins(dphi_deg).dmg)))
    /\ backup_file = Absent
    /\ tmp_file = Absent
    /\ pc = "idle"
    /\ op = "init"
    /\ data = NoData
    /\ fatigue = NoFatigue
    /\ clock = 0
    /\ obs = [ObsInit EXCEPT !.lastGood = damage_file.text]
    /\ PipeInit
    /\ DevInit

Init ==
    /\ CoreInit
    /\ StreamInit(DefaultStreamCfg)
    /\ RetInit(DefaultRetention)
    /\ WindInit(MaxStatsN)
    /\ RfInit
    /\ IotInit
    /\ AuxInit

-----------------------------------------------------------------------------
(* DamageLogger.update_cumulative, up to the call of _write_cumulative.     *)
(* cum_phi and cum_damage are lists once the constructor has returned, so  *)
(* the re-initialisation of lines 94-95 never runs.                        *)

UpdateCumulative(w) ==
    /\ pc = "idle"
    /\ clock < MaxClock
    /\ clock' = clock + 1
    /\ op' = "update"
    /\ UNCHANGED <<dphi_deg, fileVars, data>>
    /\ IF w.phi_deg_list = <<>> \/ w.D_phi = <<>>
       THEN \* return fatigue
            /\ fatigue' = w
            /\ pc' = "idle"
            /\ UNCHANGED memVars
            /\ obs' = [obs EXCEPT !.pre = [phi |-> cum_phi, dmg |-> cum_damage],
                                  !.post = cum_damage, !.interrupted = FALSE,
                                  !.afterReset = FALSE, !.run = 0, !.failed = FALSE,
                                  !.deleted = FALSE]
       ELSE LET acc == Accumulate(cum_phi, cum_damage, w)
                dmax == IF acc.dmg # <<>> THEN MaxOf(acc.dmg) ELSE 0
                imax == IF acc.dmg # <<>> THEN IndexOf(acc.dmg, dmax) ELSE 1
            IN  /\ cum_phi' = acc.phi
                /\ cum_damage' = acc.dmg
                /\ cum_timestamp' = clock'
                /\ fatigue' = [w EXCEPT !.D_phi_cum = acc.dmg, !.D_cum_max = dmax,
                                        !.phi_deg_cum = IF acc.phi # <<>> THEN acc.phi[imax] ELSE 0]
                /\ pc' = "wc"
                /\ obs' = [obs EXCEPT !.pre = [phi |-> cum_phi, dmg |-> cum_damage],
                                      !.post = acc.dmg, !.interrupted = FALSE,
                                      !.afterReset = FALSE, !.failed = FALSE,
                                      !.deleted = FALSE,
                                      !.run = IF UnitWindow(w) /\ ~NeedRemap(cum_phi, cum_damage, w)
                                              THEN IF AllZero(cum_damage) THEN 1
                                                   ELSE IF obs.run > 0 /\ ~obs.deleted
                                                        THEN obs.run + 1 ELSE 0
                                              ELSE 0]
    /\ UNCHANGED <<pipeVars, devVars, svcVars>>

\* bug variant of ResetCumulative: the zeros are not persisted
ResetCumulative_NoPersist ==
    /\ pc = "idle"
    /\ clock < MaxClock
    /\ clock' = clock + 1
    /\ op' = "reset"
    /\ cum_phi' = DefaultBins(dphi_deg).phi
    /\ cum_damage' = DefaultBins(dphi_deg).dmg
    /\ cum_timestamp' = clock'
    /\ pc' = "idle"
    /\ obs' = [obs EXCEPT !.pre = [phi |-> cum_phi, dmg |-> cum_damage],
                          !.post = DefaultBins(dphi_deg).dmg, !.interrupted = FALSE,
                          !.afterReset = TRUE, !.run = 0, !.failed = FALSE,
                          !.deleted = FALSE]
    /\ UNCHANGED <<dphi_deg, fileVars, data, fatigue>>
    /\ UNCHANGED <<pipeVars, devVars, svcVars>>

(* DamageLogger.reset_cumulative, up to the call of _write_cumulative *)
ResetCumulative ==
    /\ pc = "idle"
    /\ clock < MaxClock
    /\ clock' = clock + 1
    /\ op' = "reset"
    /\ cum_phi' = DefaultBins(dphi_deg).phi
    /\ cum_damage' = DefaultBins(dphi_deg).dmg
    /\ cum_timestamp' = clock'
    /\ pc' = "wc"
    /\ obs' = [obs EXCEPT !.pre = [phi |-> cum_phi, dmg |-> cum_damage],
                          !.post = DefaultBins(dphi_deg).dmg, !.interrupted = FALSE,
                          !.afterReset = FALSE, !.run = 0, !.failed = FALSE,
                          !.deleted = FALSE]
    /\ UNCHANGED <<dphi_deg, fileVars, data, fatigue>>
    /\ UNCHANGED <<pipeVars, devVars, svcVars>>

-----------------------------------------------------------------------------
(* DamageLogger._write_cumulative, one file operation per step *)

\* bug variant of WcBackupOpen: the primary is opened for writing, not the backup
WcBackupOpen_OpensPrimary ==
    /\ pc = "wc"
    /\ IF damage_file.exists
       THEN damage_file' = File(<<>>) /\ pc' = "backup_open"
       ELSE UNCHANGED damage_file /\ pc' = "tmp_ready"
    /\ UNCHANGED <<dphi_deg, memVars, backup_file, tmp_file, op, data, fatigue, clock, obs>>
    /\ UNCHANGED <<pipeVars, devVars, svcVars>>

\* lines 78-80: damage_file.exists(), read_text(), backup_file opened for writing
WcBackupOpen ==
    /\ pc = "wc"
    /\ IF damage_file.exists
       THEN backup_file' = File(<<>>) /\ pc' = "backup_open"
       ELSE UNCHANGED backup_file /\ pc' = "tmp_ready"
    /\ UNCHANGED <<dphi_deg, memVars, damage_file, tmp_file, op, data, fatigue, clock, obs>>
    /\ UNCHANGED <<pipeVars, devVars, svcVars>>

\* bug variant of WcBackupDone: the new record is written to the backup
WcBackupDone_CopiesNew ==
    /\ pc = "backup_open"
    /\ backup_file' = File(Dumps(Payload(cum_timestamp, cum_phi, cum_damage)))
    /\ pc' = "tmp_ready"
    /\ UNCHANGED <<dphi_deg, memVars, damage_file, tmp_file, op, data, fatigue, clock, obs>>
    /\ UNCHANGED <<pipeVars, devVars, svcVars>>

\* line 80: the text of the primary written to the backup, file closed
WcBackupDone ==
    /\ pc = "backup_open"
    /\ backup_file' = File(damage_file.text)
    /\ pc' = "tmp_ready"
    /\ UNCHANGED <<dphi_deg, memVars, damage_file, tmp_file, op, data, fatigue, clock, obs>>
    /\ UNCHANGED <<pipeVars, devVars, svcVars>>

\* bug variant of WcTmpOpen: the record is written to the primary in place
WcTmpOpen_OpensPrimary ==
    /\ pc = "tmp_ready"
    /\ damage_file' = File(<<>>)
    /\ pc' = "tmp_open"
    /\ UNCHANGED <<dphi_deg, memVars, tmp_file, backup_file, op, data, fatigue, clock, obs>>
    /\ UNCHANGED <<pipeVars, devVars, svcVars>>

\* line 85: the .tmp file opened for writing
WcTmpOpen ==
    /\ pc = "tmp_ready"
    /\ tmp_file' = File(<<>>)
    /\ pc' = "tmp_open"
    /\ UNCHANGED <<dphi_deg, memVars, damage_file, backup_file, op, data, fatigue, clock, obs>>
    /\ UNCHANGED <<pipeVars, devVars, svcVars>>

\* line 85: the new record written to the .tmp file, file closed
WcTmpDone ==
    /\ pc = "tmp_open"
    /\ tmp_file' = File(Dumps(Payload(cum_timestamp, cum_phi, cum_damage)))
    /\ pc' = "tmp_written"
    /\ UNCHANGED <<dphi_deg, memVars, damage_file, backup_file, op, data, fatigue, clock, obs>>
    /\ UNCHANGED <<pipeVars, devVars, svcVars>>

\* line 86: tmp.replace(damage_file); the caller returns
WcReplace ==
    /\ pc = "tmp_written"
    /\ damage_file' = tmp_file
    /\ tmp_file' = Absent
    /\ pc' = "idle"
    /\ obs' = [obs EXCEPT !.lastGood = tmp_file.text, !.afterReset = (op = "reset")]
    /\ UNCHANGED <<dphi_deg, memVars, backup_file, op, data, fatigue, clock>>
    /\ UNCHANGED <<pipeVars, devVars, svcVars>>

-----------------------------------------------------------------------------
(* DamageLogger.__init__ and _init_cumulative *)

\* bug variant of InitFinish: the length test of line 56 inverted
InitFinish_InvertedLenTest(d) ==
    /\ op' = "init"
    /\ data' = NoData
    /\ IF d.ok /\ d.data.phi_deg_list # <<>> /\ d.data.D_phi_cum # <<>>
          /\ Len(d.data.phi_deg_list) # Len(d.data.D_phi_cum)
       THEN /\ cum_phi' = d.data.phi_deg_list
            /\ cum_damage' = d.data.D_phi_cum
            /\ cum_timestamp' = d.data.timestamp
            /\ pc' = "idle"
       ELSE /\ cum_phi' = DefaultBins(dphi_deg).phi
            /\ cum_damage' = DefaultBins(dphi_deg).dmg
            /\ cum_timestamp' = clock
            /\ pc' = "wc"

\* lines 50-65, with `d` the loaded data
InitFinish(d) ==
    /\ op' = "init"
    /\ data' = NoData
    /\ IF d.ok /\ d.data.phi_deg_list # <<>> /\ d.data.D_phi_cum # <<>>
       THEN IF Len(d.data.phi_deg_list) # Len(d.data.D_phi_cum)
            THEN /\ cum_phi' = DefaultBins(dphi_deg).phi
                 /\ cum_damage' = DefaultBins(dphi_deg).dmg
                 /\ cum_timestamp' = clock
                 /\ pc' = "wc"
            ELSE /\ cum_phi' = d.data.phi_deg_list
                 /\ cum_damage' = d.data.D_phi_cum
                 /\ cum_timestamp' = d.data.timestamp
                 /\ pc' = "idle"
       ELSE /\ cum_phi' = DefaultBins(dphi_deg).phi
            /\ cum_damage' = DefaultBins(dphi_deg).dmg
            /\ cum_timestamp' = clock
            /\ pc' = "wc"

\* bug variant of Construct: the backup is not tried
Construct_SkipsBackup ==
    /\ pc = "down"
    /\ UNCHANGED <<dphi_deg, fileVars, fatigue, clock, obs>>
    /\ InitFinish(TryLoadJson(damage_file))
    /\ UNCHANGED <<pipeVars, devVars, svcVars>>

\* lines 11-46: a new DamageLogger on the directory; loads the primary, else
\* the backup, and opens the primary to repair it from the backup
Construct ==
    /\ pc = "down"
    /\ UNCHANGED <<dphi_deg, backup_file, tmp_file, fatigue, clock, obs>>
    /\ LET d1 == TryLoadJson(damage_file)
           d2 == TryLoadJson(backup_file)
       IN  IF d1.ok
           THEN InitFinish(d1) /\ UNCHANGED damage_file
           ELSE IF d2.ok
                THEN /\ damage_file' = File(<<>>)
                     /\ data' = d2
                     /\ op' = "init"
                     /\ pc' = "repair_open"
                     /\ UNCHANGED memVars
                ELSE InitFinish(d2) /\ UNCHANGED damage_file
    /\ UNCHANGED <<pipeVars, devVars, svcVars>>

\* line 46: the backup's record written to the primary, file closed
RepairDone ==
    /\ pc = "repair_open"
    /\ damage_file' = File(Dumps(data.data))
    /\ InitFinish(data)
    /\ obs' = [obs EXCEPT !.lastGood = Dumps(data.data)]
    /\ UNCHANGED <<dphi_deg, backup_file, tmp_file, fatigue, clock>>
    /\ UNCHANGED <<pipeVars, devVars, svcVars>>

-----------------------------------------------------------------------------
(* The process dies (crash, kill, power loss, or exit): memory is lost, a   *)
(* file that is open for writing keeps some prefix of what was being        *)
(* written.                                                                 *)

Crash ==
    /\ pc # "down"
    /\ pc' = "down"
    /\ op' = "none"
    /\ cum_phi' = <<>>
    /\ cum_damage' = <<>>
    /\ cum_timestamp' = 0
    /\ data' = NoData
    /\ fatigue' = NoFatigue
    /\ backup_file' \in IF pc = "backup_open"
                        THEN {File(t) : t \in Prefixes(damage_file.text)}
                        ELSE {backup_file}
    /\ tmp_file' \in IF pc = "tmp_open"
                     THEN {File(t) : t \in Prefixes(Dumps(Payload(cum_timestamp, cum_phi, cum_damage)))}
                     ELSE {tmp_file}
    /\ damage_file' \in IF pc = "repair_open"
                        THEN {File(t) : t \in Prefixes(Dumps(data.data))}
                        ELSE {damage_file}
    /\ obs' = [obs EXCEPT !.interrupted = IF pc \in WritePcs /\ op = "update" THEN TRUE ELSE @,
                          !.run = IF pc = "idle" /\ ~obs.deleted THEN @ ELSE 0,
                          !.afterReset = IF pc = "idle" THEN @ ELSE FALSE,
                          !.deleted = FALSE, !.failed = FALSE]
    /\ UNCHANGED <<dphi_deg, clock>>
    /\ UNCHANGED <<pipeVars, devVars, svcVars>>

-----------------------------------------------------------------------------
(* The primary file is removed from the data directory while the service   *)
(* is stopped (an operator's action, scenario 4 of the specification).      *)

DeletePrimary ==
    /\ pc = "down"
    /\ damage_file.exists
    /\ damage_file' = Absent
    /\ obs' = [obs EXCEPT !.deleted = TRUE]
    /\ UNCHANGED <<dphi_deg, memVars, backup_file, tmp_file, pc, op, data, fatigue, clock>>
    /\ UNCHANGED <<pipeVars, devVars, svcVars>>

-----------------------------------------------------------------------------
(* A file operation of _write_cumulative raises (disk full, no permission). *)

\* the exception leaves _write_cumulative: update_cumulative's caller
\* catches it (analysis_worker.py:167), reset_cumulative's caller gets it;
\* out of the constructor it ends the start of the service
Propagate ==
    /\ obs' = [obs EXCEPT !.failed = TRUE]
    /\ IF op = "init"
       THEN /\ pc' = "down"
            /\ op' = "none"
            /\ cum_phi' = <<>>
            /\ cum_damage' = <<>>
            /\ cum_timestamp' = 0
       ELSE /\ pc' = "idle"
            /\ UNCHANGED <<op, memVars>>

\* lines 78-82: the copy to the backup raises; `except Exception: pass`
BackupWriteRaises ==
    /\ pc = "backup_open"
    /\ backup_file' \in {File(t) : t \in Prefixes(damage_file.text)}
    /\ pc' = "tmp_ready"
    /\ UNCHANGED <<dphi_deg, memVars, damage_file, tmp_file, op, data, fatigue, clock, obs>>
    /\ UNCHANGED <<pipeVars, devVars, svcVars>>

\* line 85: tmp.write_text raises
TmpWriteRaises ==
    /\ pc = "tmp_open"
    /\ tmp_file' \in {File(t) : t \in Prefixes(Dumps(Payload(cum_timestamp, cum_phi, cum_damage)))}
    /\ Propagate
    /\ UNCHANGED <<dphi_deg, damage_file, backup_file, data, fatigue, clock>>
    /\ UNCHANGED <<pipeVars, devVars, svcVars>>

\* line 86: tmp.replace raises
ReplaceRaises ==
    /\ pc = "tmp_written"
    /\ Propagate
    /\ UNCHANGED <<dphi_deg, fileVars, data, fatigue, clock>>
    /\ UNCHANGED <<pipeVars, devVars, svcVars>>

-----------------------------------------------------------------------------

Next ==
    \/ \E w \in Windows : UpdateCumulative(w)
    \/ ResetCumulative
    \/ WcBackupOpen
    \/ WcBackupDone
    \/ WcTmpOpen
    \/ WcTmpDone
    \/ WcReplace
    \/ Construct
    \/ Crash

\* Crashes are the only faults.  The primary is then readable whenever a
\* logger is constructed, so the repair of line 46 (RepairDone) is never
\* enabled; SpecEnv has it.
Spec == Init /\ [][Next]_vars

\* crashes, and the primary file removed while the service is stopped
NextEnv == Next \/ RepairDone \/ DeletePrimary

SpecEnv == Init /\ [][NextEnv]_vars

\* crashes, and file operations of the write protocol that raise
NextFail == Next \/ BackupWriteRaises \/ TmpWriteRaises \/ ReplaceRaises

SpecFail == Init /\ [][NextFail]_vars

-----------------------------------------------------------------------------
(***************************************************************************)
(* Part 2: AnalysisWorker (backend/daq/analysis_worker.py): the sampler    *)
(* thread hands chunks to submit, the worker thread takes them from the    *)
(* queue in _loop.  A chunk is its number in the order of delivery; the    *)
(* statistics and buffers of a window are the chunks they were built       *)
(* from.                                                                   *)
(***************************************************************************)

\* Queue(maxsize=3)
QueueMaxsize == 3

\* chunks the sampler delivers in a run
MaxChunks == 5

\* log_interval (600 s in device.py), in ticks of the clock
LogInterval == 2

\* the parameters of DamageLogger.write_window, and the keywords of the call
\* of it in _loop
WriteWindowParams == {"device_name", "stats", "fatigue", "start_ts"}
WriteWindowKeywords == {"device_name", "stats", "disp_stats", "fatigue", "start_ts"}

\* Python binds a call only if every keyword names a parameter; otherwise
\* the call raises TypeError before the body runs
CallBinds(keywords, params) == keywords \subseteq params

\* time.time() advances
Tick ==
    /\ clock < MaxClock
    /\ clock' = clock + 1
    /\ UNCHANGED <<svcVars, devVars, loggerVars, pipeVars>>

-----------------------------------------------------------------------------
(* AnalysisWorker.submit, called by the sampler thread for every chunk *)

\* bug variant of Submit: put_nowait does not look at maxsize
Submit_Unbounded ==
    /\ spc = "s_idle"
    /\ produced < MaxChunks
    /\ produced' = produced + 1
    /\ queue' = Append(queue, produced')
    /\ sdata' = 0
    /\ spc' = "s_idle"
    /\ UNCHANGED <<svcVars, devVars, loggerVars, clock, workerVars, wobs>>

\* lines 46-49: put_nowait(data); it returns, or raises queue.Full
Submit ==
    /\ spc = "s_idle"
    /\ produced < MaxChunks
    /\ produced' = produced + 1
    /\ IF Len(queue) < QueueMaxsize
       THEN /\ queue' = Append(queue, produced')
            /\ sdata' = 0
            /\ spc' = "s_idle"
       ELSE /\ sdata' = produced'
            /\ spc' = "s_full"
            /\ UNCHANGED queue
    /\ UNCHANGED <<svcVars, devVars, loggerVars, clock, workerVars, wobs>>

\* lines 50-51, 53-54: get_nowait(); it returns the oldest chunk, or raises
\* queue.Empty, which `except Exception: pass` swallows
SubmitGetNowait ==
    /\ spc = "s_full"
    /\ IF queue = <<>>
       THEN /\ spc' = "s_idle"
            /\ sdata' = 0
            /\ wobs' = [wobs EXCEPT !.lost = @ \cup {sdata}]
            /\ UNCHANGED queue
       ELSE /\ queue' = Tail(queue)
            /\ spc' = "s_got"
            /\ wobs' = [wobs EXCEPT !.discarded = @ \cup {Head(queue)},
                                    !.notOldest = @ \/ \E c \in Range(queue) : c < Head(queue)]
            /\ UNCHANGED sdata
    /\ UNCHANGED <<svcVars, devVars, loggerVars, clock, produced, workerVars>>

\* lines 52-54: put_nowait(data) again; queue.Full is swallowed
SubmitPutAgain ==
    /\ spc = "s_got"
    /\ IF Len(queue) < QueueMaxsize
       THEN /\ queue' = Append(queue, sdata)
            /\ UNCHANGED wobs
       ELSE /\ wobs' = [wobs EXCEPT !.lost = @ \cup {sdata}]
            /\ UNCHANGED queue
    /\ spc' = "s_idle"
    /\ sdata' = 0
    /\ UNCHANGED <<svcVars, devVars, loggerVars, clock, produced, workerVars>>

-----------------------------------------------------------------------------
(* AnalysisWorker.start and _loop *)

\* lines 33-38
WorkerStart ==
    /\ ~aw_running
    /\ aw_running' = TRUE
    /\ wpc' = "w_get"
    /\ UNCHANGED <<svcVars, devVars, loggerVars, clock, queue, samplerVars, now, log_window_start,
                   start_ts, log_stats, analysis_buffers, last_fatigue,
                   csv_file, iot_log, wobs>>

\* lines 123-147: a chunk is taken from the queue and accumulated, and the
\* window test is made.  (queue.get timing out on an empty queue goes back
\* to line 123 and changes nothing.)
WorkerChunk ==
    /\ wpc = "w_get"
    /\ aw_running
    /\ queue # <<>>
    /\ queue' = Tail(queue)
    /\ now' = clock
    /\ log_stats' = Append(log_stats, Head(queue))
    /\ analysis_buffers' = Append(analysis_buffers, Head(queue))
    /\ IF clock - log_window_start >= LogInterval
       THEN /\ start_ts' = log_window_start
            /\ log_window_start' = clock
            /\ wpc' = "w_fatigue"
            /\ wobs' = [wobs EXCEPT !.boundary = "open", !.events = <<>>]
       ELSE /\ wpc' = "w_get"
            /\ wobs' = [wobs EXCEPT !.boundary = "none"]
            /\ UNCHANGED <<start_ts, log_window_start>>
    /\ UNCHANGED <<svcVars, devVars, loggerVars, clock, samplerVars, aw_running, last_fatigue,
                   csv_file, iot_log>>

\* lines 148-168: fatigue_damage raises, or returns the window `w`, which
\* update_cumulative adds to the record and persists (the whole of
\* update_cumulative and _write_cumulative, no file operation failing)
WorkerFatigue(raises, w) ==
    /\ wpc = "w_fatigue"
    /\ pc = "idle"
    /\ wpc' = "w_log"
    /\ UNCHANGED <<svcVars, devVars, dphi_deg, pc, data, obs, clock, queue, samplerVars, aw_running,
                   now, log_window_start, start_ts, log_stats, analysis_buffers,
                   csv_file, iot_log>>
    /\ IF raises
       THEN /\ UNCHANGED <<memVars, fileVars, op, last_fatigue>>
            /\ fatigue' = NoFatigue
            /\ wobs' = [wobs EXCEPT !.events = Append(@, "fatigue_error")]
       ELSE IF w.phi_deg_list = <<>> \/ w.D_phi = <<>>
            THEN /\ UNCHANGED <<memVars, fileVars>>
                 /\ op' = "update"
                 /\ fatigue' = w
                 /\ last_fatigue' = w
                 /\ wobs' = [wobs EXCEPT !.events = Append(@, "no_damage")]
            ELSE LET acc == Accumulate(cum_phi, cum_damage, w)
                     dmax == IF acc.dmg # <<>> THEN MaxOf(acc.dmg) ELSE 0
                     imax == IF acc.dmg # <<>> THEN IndexOf(acc.dmg, dmax) ELSE 1
                     res == [w EXCEPT !.D_phi_cum = acc.dmg, !.D_cum_max = dmax,
                                      !.phi_deg_cum = IF acc.phi # <<>> THEN acc.phi[imax] ELSE 0]
                 IN  /\ cum_phi' = acc.phi
                     /\ cum_damage' = acc.dmg
                     /\ cum_timestamp' = now
                     /\ op' = "update"
                     /\ fatigue' = res
                     /\ last_fatigue' = res
                     /\ backup_file' = IF damage_file.exists
                                       THEN File(damage_file.text) ELSE backup_file
                     /\ damage_file' = File(Dumps(Payload(now, acc.phi, acc.dmg)))
                     /\ tmp_file' = Absent
                     /\ wobs' = [wobs EXCEPT !.events = Append(@, "cumulative")]

\* lines 170-215: the displacement statistics, the call of write_window
\* (the CSV rows), iot.publish, and the clearing of the accumulators.  The
\* call of write_window that does not bind raises TypeError outside any
\* try: the exception leaves _loop and the thread ends, with `running`
\* still true.
WorkerLogWindow ==
    /\ wpc = "w_log"
    /\ IF CallBinds(WriteWindowKeywords, WriteWindowParams)
       THEN /\ csv_file' = IF log_stats # <<>> \/ fatigue # NoFatigue
                           THEN Append(csv_file, [start |-> start_ts, stats |-> log_stats])
                           ELSE csv_file
            /\ iot_log' = Append(iot_log, [ts |-> now, stats |-> log_stats,
                                           D_phi_cum |-> cum_damage])
            /\ log_stats' = <<>>
            /\ analysis_buffers' = <<>>
            /\ wpc' = "w_get"
            /\ wobs' = [wobs EXCEPT !.boundary = "closed",
                                    !.events = @ \o <<"csv", "iot">>]
       ELSE /\ wpc' = "w_dead"
            /\ UNCHANGED <<csv_file, iot_log, log_stats, analysis_buffers, wobs>>
    /\ UNCHANGED <<svcVars, devVars, loggerVars, clock, queue, samplerVars, aw_running, now,
                   log_window_start, start_ts, last_fatigue>>

-----------------------------------------------------------------------------

NextWorker ==
    \/ Tick
    \/ Submit
    \/ SubmitGetNowait
    \/ SubmitPutAgain
    \/ WorkerStart
    \/ WorkerChunk
    \/ \E raises \in BOOLEAN, w \in Windows : WorkerFatigue(raises, w)
    \/ WorkerLogWindow

\* one device's sampler and analysis worker, no crash
SpecWorker == Init /\ [][NextWorker]_vars

\* the same with the threads scheduled fairly: a thread that can take its
\* next step takes it
SpecWorkerLive ==
    /\ SpecWorker
    /\ WF_vars(Submit)
    /\ WF_vars(SubmitGetNowait)
    /\ WF_vars(SubmitPutAgain)
    /\ WF_vars(WorkerChunk)
    /\ WF_vars(\E raises \in BOOLEAN, w \in Windows : WorkerFatigue(raises, w))
    /\ WF_vars(WorkerLogWindow)

-----------------------------------------------------------------------------
(***************************************************************************)
(* Part 3: DeviceManager, DAQDevice and DAQRunner (backend/daq/manager.py, *)
(* device.py, runner.py): starting and stopping the devices, and the       *)
(* sampler thread of each run.  The calls of the manager come one at a     *)
(* time; the sampler threads run concurrently with them.  A run of a       *)
(* device is numbered by the order of its start; a Task and a thread carry *)
(* the number of the run that made them.                                   *)
(***************************************************************************)

\* the sampler thread is between `while self.running` and its end
Alive(d, t) == rthread[d][t] \in {"r_loop", "r_read", "r_fail", "r_teardown"}

\* the device a call of the manager is working on
ApiDev == DevOrder[api.idx]

ApiIdle == [op |-> "none", idx |-> 1, pc |-> "none"]

\* DeviceManager.get_status, the key "running"
GetStatus == [d \in Devices |-> [running |-> dev_running[d]]]

-----------------------------------------------------------------------------
(* Calls of the manager *)

\* manager.py 127-130: start_all begins with the first device
CallStartAll ==
    /\ api.op = "none"
    /\ dobs.startAll = "none"
    /\ api' = [op |-> "start_all", idx |-> 1, pc |-> "d_start"]
    /\ dobs' = [dobs EXCEPT !.startAll = "running"]
    /\ UNCHANGED <<svcVars, loggerVars, clock, pipeVars, dev_running, runnerVars>>

\* manager.py 123-125: start(name)
CallStart(i) ==
    /\ api.op = "none"
    /\ runs[DevOrder[i]] < MaxRuns
    /\ api' = [op |-> "start", idx |-> i, pc |-> "d_start"]
    /\ dobs' = [dobs EXCEPT !.restart[DevOrder[i]] = "none"]
    /\ UNCHANGED <<svcVars, loggerVars, clock, pipeVars, dev_running, runnerVars>>

\* manager.py 132-134: stop(name)
CallStop(i) ==
    /\ api.op = "none"
    /\ api' = [op |-> "stop", idx |-> i, pc |-> "d_stop"]
    /\ dobs' = [dobs EXCEPT !.joinedLive[DevOrder[i]] = FALSE,
                            !.stopped[DevOrder[i]] = FALSE,
                            !.stopAfter[DevOrder[i]] =
                                IF dobs.err[DevOrder[i]] # "read" THEN "no"
                                ELSE IF \E t \in Runs : Alive(DevOrder[i], t)
                                     THEN "during" ELSE "after"]
    /\ UNCHANGED <<svcVars, loggerVars, clock, pipeVars, dev_running, runnerVars>>

\* the call on the device returned: start_all goes on with the next device
ApiReturn ==
    IF api.op = "start_all" /\ api.idx < Len(DevOrder)
    THEN [api EXCEPT !.idx = @ + 1, !.pc = "d_start"]
    ELSE ApiIdle

\* the history when a call on the device returned normally
DobsReturn(started) ==
    [dobs EXCEPT !.startAll = IF api.op = "start_all" /\ api.idx = Len(DevOrder)
                              THEN "returned" ELSE @,
                 !.restart[ApiDev] = IF api.op = "start" /\ dobs.err[ApiDev] # "none"
                                     THEN (IF started THEN "started" ELSE "ignored")
                                     ELSE @]

-----------------------------------------------------------------------------
(* DAQDevice.start and DAQRunner.start *)

\* device.py 92-96: the running test, running = True, analysis_worker.start()
DevStart ==
    /\ api.pc = "d_start"
    /\ IF dev_running[ApiDev]
       THEN /\ api' = ApiReturn
            /\ dobs' = DobsReturn(FALSE)
            /\ UNCHANGED <<dev_running, aw_running, wpc>>
       ELSE /\ dev_running' = [dev_running EXCEPT ![ApiDev] = TRUE]
            /\ api' = [api EXCEPT !.pc = "r_start"]
            /\ IF ApiDev = DeviceName /\ ~aw_running
               THEN aw_running' = TRUE /\ wpc' = "w_get"
               ELSE UNCHANGED <<aw_running, wpc>>
            /\ UNCHANGED dobs
    /\ UNCHANGED <<svcVars, loggerVars, clock, queue, samplerVars, now, log_window_start,
                   start_ts, log_stats, analysis_buffers, last_fatigue,
                   csv_file, iot_log, wobs, runnerVars>>

\* runner.py 59-73: the running test, Task(), the channels and the timing.
\* Task() raises (device absent), or the configuration raises with the new
\* Task assigned; the exception leaves DAQDevice.start, DeviceManager.start
\* and the loop of start_all.
RunnerStartTask(ok, assigned) ==
    /\ api.pc = "r_start"
    /\ IF runner_running[ApiDev]
       THEN /\ api' = ApiReturn
            /\ dobs' = DobsReturn(FALSE)
            /\ UNCHANGED task
       ELSE IF ok
            THEN /\ task' = [task EXCEPT ![ApiDev] = runs[ApiDev] + 1]
                 /\ api' = [api EXCEPT !.pc = "r_thread"]
                 /\ dobs' = [dobs EXCEPT !.err[ApiDev] = "none",
                                         !.down[ApiDev] = FALSE,
                                         !.late[ApiDev] = FALSE,
                                         !.stopped[ApiDev] = FALSE]
            ELSE /\ task' = IF assigned
                            THEN [task EXCEPT ![ApiDev] = runs[ApiDev] + 1]
                            ELSE task
                 /\ api' = ApiIdle
                 /\ dobs' = [dobs EXCEPT !.err[ApiDev] = "start",
                                         !.down[ApiDev] = TRUE,
                                         !.stopped[ApiDev] = FALSE,
                                         !.startAll = IF api.op = "start_all"
                                                      THEN "raised" ELSE @]
    /\ UNCHANGED <<svcVars, loggerVars, clock, pipeVars, dev_running, runner_running,
                   thread, rthread, runs>>

\* runner.py 75-83 and device.py 98: running = True, the thread is started
RunnerStartThread ==
    /\ api.pc = "r_thread"
    /\ runs' = [runs EXCEPT ![ApiDev] = @ + 1]
    /\ runner_running' = [runner_running EXCEPT ![ApiDev] = TRUE]
    /\ thread' = [thread EXCEPT ![ApiDev] = runs'[ApiDev]]
    /\ rthread' = [rthread EXCEPT ![ApiDev][runs'[ApiDev]] = "r_loop"]
    /\ api' = ApiReturn
    /\ dobs' = [DobsReturn(TRUE) EXCEPT !.err[ApiDev] = "none", !.down[ApiDev] = FALSE,
                                        !.late[ApiDev] = FALSE]
    /\ UNCHANGED <<svcVars, loggerVars, clock, pipeVars, dev_running, task>>

-----------------------------------------------------------------------------
(* DAQDevice.stop and DAQRunner.stop *)

\* device.py 100-103 and runner.py 85-86: both running flags cleared
DevStop ==
    /\ api.pc = "d_stop"
    /\ dev_running' = [dev_running EXCEPT ![ApiDev] = FALSE]
    /\ runner_running' = [runner_running EXCEPT ![ApiDev] = FALSE]
    /\ api' = [api EXCEPT !.pc = "s_join"]
    /\ UNCHANGED <<svcVars, loggerVars, clock, pipeVars, task, thread, rthread, runs, dobs>>

\* runner.py 87-88: join(timeout=1.0) is called
StopJoinCall ==
    /\ api.pc = "s_join"
    /\ api' = [api EXCEPT !.pc = IF thread[ApiDev] # 0 THEN "s_joining" ELSE "s_task"]
    /\ dobs' = [dobs EXCEPT !.joinedLive[ApiDev] =
                                thread[ApiDev] # 0 /\ Alive(ApiDev, thread[ApiDev])]
    /\ UNCHANGED <<svcVars, loggerVars, clock, pipeVars, dev_running, runnerVars>>

\* runner.py 88-89: join returns, the thread having ended or the second
\* having passed; thread = None
StopJoinReturn ==
    /\ api.pc = "s_joining"
    /\ thread' = [thread EXCEPT ![ApiDev] = 0]
    /\ api' = [api EXCEPT !.pc = "s_task"]
    /\ UNCHANGED <<svcVars, loggerVars, clock, pipeVars, dev_running, runner_running,
                   task, rthread, runs, dobs>>

\* bug variant of StopTask: the Task is closed but stays assigned
StopTask_KeepsTask ==
    /\ api.pc = "s_task"
    /\ api' = ApiIdle
    /\ IF ApiDev = DeviceName
       THEN /\ aw_running' = FALSE
            /\ wpc' = IF wpc = "w_get" THEN "w_none" ELSE wpc
       ELSE UNCHANGED <<aw_running, wpc>>
    /\ dobs' = [dobs EXCEPT !.stopped[ApiDev] = TRUE, !.restart[ApiDev] = "none"]
    /\ UNCHANGED <<svcVars, loggerVars, clock, queue, samplerVars, now, log_window_start,
                   start_ts, log_stats, analysis_buffers, last_fatigue,
                   csv_file, iot_log, wobs, dev_running, runner_running,
                   task, thread, rthread, runs>>

\* runner.py 90-97 and device.py 106-109: the Task stopped and closed,
\* task = None; analysis_worker.stop(), whose thread leaves its loop
StopTask ==
    /\ api.pc = "s_task"
    /\ task' = [task EXCEPT ![ApiDev] = 0]
    /\ api' = ApiIdle
    /\ IF ApiDev = DeviceName
       THEN /\ aw_running' = FALSE
            /\ wpc' = IF wpc = "w_get" THEN "w_none" ELSE wpc
       ELSE UNCHANGED <<aw_running, wpc>>
    /\ dobs' = [dobs EXCEPT !.stopped[ApiDev] = TRUE, !.restart[ApiDev] = "none"]
    /\ UNCHANGED <<svcVars, loggerVars, clock, queue, samplerVars, now, log_window_start,
                   start_ts, log_stats, analysis_buffers, last_fatigue,
                   csv_file, iot_log, wobs, dev_running, runner_running,
                   thread, rthread, runs>>

-----------------------------------------------------------------------------
(* DAQRunner._loop, the sampler thread of run t of device d *)

\* line 100: while self.running
RunnerTest(d, t) ==
    /\ rthread[d][t] = "r_loop"
    /\ rthread' = [rthread EXCEPT ![d][t] = IF runner_running[d] THEN "r_read" ELSE "r_ended"]
    /\ UNCHANGED <<svcVars, loggerVars, clock, pipeVars, dev_running, runner_running,
                   task, thread, runs, api, dobs>>

\* lines 101-108: self.task.read and on_samples(data).  With task None the
\* attribute access raises; otherwise the read (or the callback) raises or
\* the chunk is delivered.
RunnerRead(d, t, ok) ==
    /\ rthread[d][t] = "r_read"
    /\ IF task[d] # 0 /\ ok
       THEN /\ rthread' = [rthread EXCEPT ![d][t] = "r_loop"]
            /\ dobs' = [dobs EXCEPT !.late[d] = @ \/ dobs.down[d]]
       ELSE /\ rthread' = [rthread EXCEPT ![d][t] = "r_fail"]
            /\ UNCHANGED dobs
    /\ UNCHANGED <<svcVars, loggerVars, clock, pipeVars, dev_running, runner_running,
                   task, thread, runs, api>>

\* bug variant of RunnerFailFlag: the loop is left with running still True
RunnerFailFlag_KeepsRunning(d, t) ==
    /\ rthread[d][t] = "r_fail"
    /\ rthread' = [rthread EXCEPT ![d][t] = "r_teardown"]
    /\ dobs' = [dobs EXCEPT !.err[d] = "read", !.down[d] = FALSE, !.late[d] = FALSE]
    /\ UNCHANGED <<svcVars, loggerVars, clock, pipeVars, dev_running, runner_running,
                   task, thread, runs, api>>

\* lines 108-111: the exception is caught, running = False
RunnerFailFlag(d, t) ==
    /\ rthread[d][t] = "r_fail"
    /\ runner_running' = [runner_running EXCEPT ![d] = FALSE]
    /\ rthread' = [rthread EXCEPT ![d][t] = "r_teardown"]
    /\ dobs' = [dobs EXCEPT !.err[d] = "read", !.down[d] = FALSE, !.late[d] = FALSE]
    /\ UNCHANGED <<svcVars, loggerVars, clock, pipeVars, dev_running, task, thread,
                   runs, api>>

\* lines 112-119: the Task stopped and closed, task = None, break
RunnerFailTeardown(d, t) ==
    /\ rthread[d][t] = "r_teardown"
    /\ task' = [task EXCEPT ![d] = 0]
    /\ rthread' = [rthread EXCEPT ![d][t] = "r_ended"]
    /\ dobs' = [dobs EXCEPT !.down[d] = (dobs.err[d] = "read")]
    /\ UNCHANGED <<svcVars, loggerVars, clock, pipeVars, dev_running, runner_running,
                   thread, runs, api>>

\* a step of the sampler thread
RunnerStep(d, t) ==
    \/ RunnerTest(d, t)
    \/ \E ok \in BOOLEAN : RunnerRead(d, t, ok)
    \/ RunnerFailFlag(d, t)
    \/ RunnerFailTeardown(d, t)

-----------------------------------------------------------------------------

\* one device: start, stop, and its sampler threads
NextRunner ==
    \/ CallStart(1)
    \/ CallStop(1)
    \/ DevStart
    \/ \E ok, assigned \in BOOLEAN : RunnerStartTask(ok, assigned)
    \/ RunnerStartThread
    \/ DevStop
    \/ StopJoinCall
    \/ StopJoinReturn
    \/ StopTask
    \/ \E t \in Runs : RunnerTest(DevOrder[1], t)
    \/ \E t \in Runs, ok \in BOOLEAN : RunnerRead(DevOrder[1], t, ok)
    \/ \E t \in Runs : RunnerFailFlag(DevOrder[1], t)
    \/ \E t \in Runs : RunnerFailTeardown(DevOrder[1], t)

SpecRunner == Init /\ [][NextRunner]_vars

\* all the devices: start_all and start, and the sampler threads
NextDev ==
    \/ CallStartAll
    \/ \E i \in 1..Len(DevOrder) : CallStart(i)
    \/ DevStart
    \/ \E ok, assigned \in BOOLEAN : RunnerStartTask(ok, assigned)
    \/ RunnerStartThread
    \/ \E d \in Devices, t \in Runs : RunnerTest(d, t)
    \/ \E d \in Devices, t \in Runs, ok \in BOOLEAN : RunnerRead(d, t, ok)
    \/ \E d \in Devices, t \in Runs : RunnerFailFlag(d, t)
    \/ \E d \in Devices, t \in Runs : RunnerFailTeardown(d, t)

SpecDev == Init /\ [][NextDev]_vars

-----------------------------------------------------------------------------
(***************************************************************************)
(* Part 4: the stream path of a device (device.py).  The sampler thread    *)
(* runs _on_samples for every chunk: it decimates each channel, appends    *)
(* to the stream buffers and to the storage buffers.  The storage thread   *)
(* reads the storage buffers in capture_snapshot.  There is no lock in     *)
(* device.py: one list(buf) and one buf.extend(...) are each one step of   *)
(* the interpreter, and the two threads interleave between them.           *)
(***************************************************************************)

\* maxlen of buffers[i] and disp_buffers[i]
BufLen == Max(n_limit, samples_per_read)

\* maxlen of storage_buffers[i]; storage_duration_s is fft_window_s, as in
\* the default configuration
StorageLen == n_limit

\* the chunks task.read can return for one channel: a ramp and silence
Waveforms(n) == {[i \in 1..n |-> i], [i \in 1..n |-> 0]}

\* DAQDevice._build_decimation_kernel, scaled: three taps with the shape of
\* the Hanning-windowed sinc (the code's has max(31, 8M+1) taps and is
\* divided by its sum)
BuildDecimationKernel(m) == IF m <= 1 THEN <<>> ELSE <<1, 2, 1>>

\* acc_to_disp: sample i of the displacement is a function of the whole
\* chunk and of i
AccToDisp(arr) == [i \in 1..Len(arr) |-> <<arr, i>>]

\* DAQDevice._update_decimation, called by DAQDevice.start with the rate the
\* hardware reports; the model follows the stream of one start, so the call
\* comes before the first chunk
UpdateDecimation(m) ==
    /\ opc = "o_idle"
    /\ sobs.chunks = 0
    /\ decimation' = m
    /\ decim_kernel' = BuildDecimationKernel(m)
    /\ decim_state' = [c \in Channels |-> <<>>]
    /\ sobs' = [sobs EXCEPT !.x_in = [c \in Channels |-> <<>>],
                            !.y_out = [c \in Channels |-> <<>>]]
    /\ UNCHANGED <<coreVars, auxVars, retVars, windVars, rfVars, iotVars, samples_per_read, n_limit, buffers, disp_buffers,
                   storage_buffers, opc, och, decimated, kpc, kch, snap>>

\* lines 118-121: the kernel, built on first use
KernelInUse == IF decim_kernel = <<>> THEN BuildDecimationKernel(decimation) ELSE decim_kernel

\* lines 123-127: the previous chunk's tail, or zeros, before the chunk
Padded(state, arr) ==
    LET pad_len == Max(0, Len(KernelInUse) - 1)
    IN (IF Len(state) # pad_len THEN Zeros(pad_len) ELSE state) \o arr

\* lines 115-138: what one channel adds to `decimated`
DecimateOut(state, arr) ==
    IF decimation > 1
       THEN EveryMth(ConvValid(Padded(state, arr), KernelInUse), decimation)
       ELSE arr

\* lines 130-131: the channel's state after the chunk
DecimateState(state, arr) ==
    IF decimation > 1 /\ Len(KernelInUse) > 1
       THEN LastN(Padded(state, arr), Len(KernelInUse) - 1)
       ELSE state

\* lines 156-161: the displacement of the raw chunk, downsampled
DispDec(arr) ==
    IF decimation > 1 THEN EveryMth(AccToDisp(arr), decimation) ELSE AccToDisp(arr)

\* DAQDevice._on_samples, lines 113-163
OnSamples(chunk) ==
    /\ opc = "o_idle"
    /\ sobs.chunks < MaxStreamChunks
    /\ LET dec == [c \in Channels |-> DecimateOut(decim_state[c], chunk[c])]
       IN /\ decimated' = dec
          /\ decim_state' = [c \in Channels |-> DecimateState(decim_state[c], chunk[c])]
          /\ decim_kernel' = IF decimation > 1 THEN KernelInUse ELSE decim_kernel
          /\ buffers' = [c \in Channels |-> DequeExtend(buffers[c], dec[c], BufLen)]
          /\ disp_buffers' = [c \in Channels |->
                                 DequeExtend(disp_buffers[c], DispDec(chunk[c]), BufLen)]
          /\ sobs' = [sobs EXCEPT
                        !.x_in = [c \in Channels |-> @[c] \o chunk[c]],
                        !.y_out = [c \in Channels |-> @[c] \o dec[c]],
                        !.acc_all = [c \in Channels |-> @[c] \o dec[c]],
                        !.disp_all = [c \in Channels |-> @[c] \o DispDec(chunk[c])],
                        !.chunks = @ + 1]
    /\ opc' = "o_store"
    /\ och' = 1
    /\ UNCHANGED <<coreVars, auxVars, retVars, windVars, rfVars, iotVars, samples_per_read, n_limit, decimation, storage_buffers,
                   kpc, kch, snap>>

\* lines 165-166, one channel, and (after the last one) the rest of the
\* handler, which leaves the buffers alone
OnSamplesStore ==
    /\ opc = "o_store"
    /\ storage_buffers' = [storage_buffers EXCEPT
                              ![och] = DequeExtend(@, decimated[och], StorageLen)]
    /\ sobs' = [sobs EXCEPT !.appended[och] = @ + 1]
    /\ IF och \in Channels /\ och + 1 \in Channels
          THEN och' = och + 1 /\ opc' = opc
          ELSE och' = 1 /\ opc' = "o_idle"
    /\ UNCHANGED <<coreVars, auxVars, retVars, windVars, rfVars, iotVars, samples_per_read, n_limit, decimation, decim_kernel,
                   decim_state, buffers, disp_buffers, decimated, kpc, kch, snap>>

\* StorageService._run_once calls dev.capture_snapshot, lines 457-461
SnapBegin ==
    /\ kpc = "k_idle"
    /\ kpc' = "k_read"
    /\ kch' = 1
    /\ snap' = <<>>
    /\ UNCHANGED <<coreVars, auxVars, retVars, windVars, rfVars, iotVars, samples_per_read, n_limit, decimation, decim_kernel,
                   decim_state, buffers, disp_buffers, storage_buffers, opc, och,
                   decimated, sobs>>

\* lines 462-466, one channel: arr = list(buf), cut to the last `count`
SnapRead ==
    /\ kpc = "k_read"
    /\ LET arr == storage_buffers[kch]
           count == StorageLen
       IN snap' = Append(snap, IF count # 0 /\ Len(arr) > count THEN LastN(arr, count) ELSE arr)
    /\ sobs' = [sobs EXCEPT !.seen[kch] = sobs.appended[kch]]
    /\ IF kch + 1 \in Channels
          THEN kch' = kch + 1 /\ kpc' = kpc
          ELSE kch' = kch /\ kpc' = "k_done"
    /\ UNCHANGED <<coreVars, auxVars, retVars, windVars, rfVars, iotVars, samples_per_read, n_limit, decimation, decim_kernel,
                   decim_state, buffers, disp_buffers, storage_buffers, opc, och,
                   decimated>>

\* lines 467-474: the snapshot is returned
SnapReturn ==
    /\ kpc = "k_done"
    /\ kpc' = "k_idle"
    /\ UNCHANGED <<coreVars, auxVars, retVars, windVars, rfVars, iotVars, samples_per_read, n_limit, decimation, decim_kernel,
                   decim_state, buffers, disp_buffers, storage_buffers, opc, och,
                   decimated, kch, snap, sobs>>

NextStream ==
    \/ \E m \in 1..MaxDecimation : UpdateDecimation(m)
    \/ \E chunk \in [Channels -> Waveforms(samples_per_read)] : OnSamples(chunk)
    \/ OnSamplesStore
    \/ SnapBegin
    \/ SnapRead
    \/ SnapReturn

\* a device of any of the configurations
InitStream ==
    /\ CoreInit
    /\ dphi_deg = 90        \* the damage logger's layout plays no part here
    /\ \E cfg \in StreamCfgs : StreamInit(cfg)
    /\ RetInit(DefaultRetention)
    /\ WindInit(MaxStatsN)
    /\ RfInit
    /\ IotInit
    /\ AuxInit

SpecStream == InitStream /\ [][NextStream]_vars

-----------------------------------------------------------------------------
(***************************************************************************)
(* Part 5: the retention of the storage service (storage_worker.py).       *)
(* output_dir is a set of entries, each a name (a sequence of characters)  *)
(* and whether it is a directory.  The storage thread runs _run_once:      *)
(* _cleanup_old_tdms, then _write_tdms into the folder of the local month. *)
(***************************************************************************)

DigitChars == <<"0", "1", "2", "3", "4", "5", "6", "7", "8", "9">>

\* str.isdigit() of one character
IsDigit(ch) == ch \in Range(DigitChars)

DigitVal(ch) == (CHOOSE d \in 1..Len(DigitChars) : DigitChars[d] = ch) - 1

\* int(text) for a text of digits
RECURSIVE IntOf(_)
IntOf(text) ==
    IF text = <<>> THEN 0
    ELSE IntOf(SubSeq(text, 1, Len(text) - 1)) * 10 + DigitVal(text[Len(text)])

\* n with `width` digits, zeros in front (strftime's %Y and %m)
RECURSIVE Padded0(_, _)
Padded0(n, width) ==
    IF width = 0 THEN <<>>
    ELSE Padded0(n \div 10, width - 1) \o <<DigitChars[(n % 10) + 1]>>

\* local_ts.strftime("%Y%m")
StrftimeYm(d) == Padded0(d.year, 4) \o Padded0(d.month, 2)

Entry(name, dir) == [name |-> name, dir |-> dir]

\* what can be found in output_dir: the folders of the months around the
\* start, a file with a month's name, and folders with other names
Entries ==
    {Entry(StrftimeYm([year |-> 2024, month |-> m]), TRUE) : m \in 9..12}
    \cup {Entry(StrftimeYm([year |-> 2025, month |-> m]), TRUE) : m \in 1..2}
    \cup {Entry(StrftimeYm([year |-> 2024, month |-> 9]), FALSE),
          Entry(<<"2", "0", "2", "4", "9">>, TRUE),
          Entry(<<"2", "0", "2", "4", "x", "9">>, TRUE)}

\* an operator, or an earlier run of the service, puts an entry into
\* output_dir
CreateEntry(e) ==
    /\ rpc = "r_idle"
    /\ e \notin out_dir
    /\ \A f \in out_dir : f.name # e.name
    /\ out_dir' = out_dir \cup {e}
    /\ UNCHANGED <<coreVars, auxVars, streamVars, windVars, rfVars, iotVars, today, retention_months, rpc, robs>>

\* the calendar moves to the next month
MonthPasses ==
    /\ rpc = "r_idle"
    /\ robs.months < MaxMonths
    /\ today' = IF today.month = 12
                   THEN [year |-> today.year + 1, month |-> 1]
                   ELSE [today EXCEPT !.month = @ + 1]
    /\ robs' = [robs EXCEPT !.months = @ + 1]
    /\ UNCHANGED <<coreVars, auxVars, streamVars, windVars, rfVars, iotVars, out_dir, retention_months, rpc>>

\* _run_once, lines 71-72: the time stamp of the run
RunOnceBegin ==
    /\ rpc = "r_idle"
    /\ rpc' = "r_cleanup"
    /\ robs' = [robs EXCEPT !.deleted = {}]
    /\ UNCHANGED <<coreVars, auxVars, streamVars, windVars, rfVars, iotVars, out_dir, today, retention_months>>

\* bug variant of IsOld: the month at the cutoff goes too
IsOld_Inclusive(val, cutoff) == val <= cutoff

\* line 346
IsOld(val, cutoff) == val < cutoff

\* lines 335-346: the entries the loop removes
Removed(cutoff) ==
    {e \in out_dir :
        /\ e.dir
        /\ Len(e.name) = 6
        /\ \A i \in 1..Len(e.name) : IsDigit(e.name[i])
        /\ IsOld(IntOf(SubSeq(e.name, 1, 4)) * 12 + IntOf(SubSeq(e.name, 5, 6)), cutoff)}

\* _cleanup_old_tdms
CleanupOldTdms ==
    /\ rpc = "r_cleanup"
    /\ IF retention_months <= 0
          THEN UNCHANGED <<out_dir, robs>>
          ELSE LET curr_val == today.year * 12 + today.month
                   cutoff == curr_val - (retention_months - 1)
               IN /\ out_dir' = out_dir \ Removed(cutoff)
                  /\ robs' = [robs EXCEPT !.deleted = Removed(cutoff)]
    /\ rpc' = "r_write"
    /\ UNCHANGED <<coreVars, auxVars, streamVars, windVars, rfVars, iotVars, today, retention_months>>

\* _run_once, lines 78-94: for a snapshot with data, _write_tdms makes the
\* folder of the local month (mkdir with exist_ok)
RunOnceWrite(wrote) ==
    /\ rpc = "r_write"
    /\ out_dir' = IF wrote /\ \A f \in out_dir : f.name # StrftimeYm(today)
                     THEN out_dir \cup {Entry(StrftimeYm(today), TRUE)}
                     ELSE out_dir
    /\ rpc' = "r_idle"
    /\ UNCHANGED <<coreVars, auxVars, streamVars, windVars, rfVars, iotVars, today, retention_months, robs>>

NextRetention ==
    \/ \E e \in Entries : CreateEntry(e)
    \/ MonthPasses
    \/ RunOnceBegin
    \/ CleanupOldTdms
    \/ \E wrote \in BOOLEAN : RunOnceWrite(wrote)

\* a storage service of any retention
InitRetention ==
    /\ CoreInit
    /\ dphi_deg = 90        \* the damage logger's layout plays no part here
    /\ StreamInit(DefaultStreamCfg)
    /\ \E r \in 1..MaxRetention : RetInit(r)
    /\ WindInit(MaxStatsN)
    /\ RfInit
    /\ IotInit
    /\ AuxInit

SpecRetention == InitRetention /\ [][NextRetention]_vars

-----------------------------------------------------------------------------
(***************************************************************************)
(* Part 6: the wind service (sensors/wind.py).  One thread runs _loop: a   *)
(* tick connects if need be, reads the sensor, records the sample, and     *)
(* every stats_every_n samples computes the statistics of the window.  A   *)
(* sample's time stamp is the number of its tick.  What _loop does under   *)
(* self._lock is one step.                                                 *)
(***************************************************************************)

\* what sensor.read() can return in the tick
WindSamples(ts) == [ts : {ts}, speed_mps : {1, 2}, direction_deg : {0, 90}]

\* what sensor.connect() can do
ConnectOutcomes == {"true", "false", "raises"}

\* min(list)
MinOf(s) == CHOOSE m \in Range(s) : \A x \in Range(s) : m <= x

\* _circular_mean_deg for directions of 0 and 90 degrees: the angle of the
\* vector (c, s), c the number of samples at 0 and s the number at 90
CircularMeanDeg(dirs) ==
    LET sn == Cardinality({i \in 1..Len(dirs) : dirs[i] = 90})
        cs == Cardinality({i \in 1..Len(dirs) : dirs[i] = 0})
    IN IF dirs = <<>> \/ (sn = 0 /\ cs = 0) THEN [atan2 |-> <<0, 1>>] ELSE [atan2 |-> <<sn, cs>>]

\* WindService._compute_stats; the mean is kept as sum and number
ComputeStats(samples) ==
    LET speeds == [i \in 1..Len(samples) |-> samples[i].speed_mps]
        dirs == [i \in 1..Len(samples) |-> samples[i].direction_deg]
    IN IF speeds = <<>> THEN <<>>
       ELSE [ts_start |-> samples[1].ts,
             ts_end |-> samples[Len(samples)].ts,
             speed_min |-> MinOf(speeds),
             speed_max |-> MaxOf(speeds),
             speed_mean |-> <<SumOf(speeds), Len(speeds)>>,
             direction_mean_deg |-> CircularMeanDeg(dirs),
             n |-> Len(speeds)]

\* WindService.start.  A stop() before it has joined the loop thread: the
\* join of line 263 returns within its timeout of 1 s when a tick is not
\* longer than that (sample_interval_s is 1.0 by default)
WindStart ==
    /\ ~wind_running
    /\ wind_pc = "l_none"
    /\ wind_running' = TRUE
    /\ wind_pc' = "l_init"
    /\ UNCHANGED <<coreVars, auxVars, streamVars, retVars, rfVars, iotVars, stats_every_n, wind_connected,
                   wind_last_sample, wind_last_stats, wind_window, wind_counter,
                   wind_emit, wind_obs>>

\* WindService.stop: the loop ends at its next test.  The sensor is closed;
\* a later connect or read goes as the sensor decides.
WindStop ==
    /\ wind_running
    /\ wind_running' = FALSE
    /\ UNCHANGED <<coreVars, auxVars, streamVars, retVars, rfVars, iotVars, stats_every_n, wind_connected,
                   wind_last_sample, wind_last_stats, wind_window, wind_counter,
                   wind_pc, wind_emit, wind_obs>>

\* _loop, lines 311-321: the first connect, counter = 0
WindInitialConnect(outcome) ==
    /\ wind_pc = "l_init"
    /\ wind_connected' = (outcome = "true")
    /\ wind_counter' = 0
    /\ wind_pc' = "l_test"
    /\ wind_obs' = [wind_obs EXCEPT !.succ = 0, !.published = 0, !.failed = FALSE,
                                    !.tried = FALSE, !.read = "none"]
    /\ UNCHANGED <<coreVars, auxVars, streamVars, retVars, rfVars, iotVars, stats_every_n, wind_running,
                   wind_last_sample, wind_last_stats, wind_window, wind_emit>>

\* line 322: while self._running
WindTest ==
    /\ wind_pc = "l_test"
    /\ IF wind_running
          THEN /\ wind_obs.ticks < MaxTicks
               /\ wind_pc' = "l_tick"
               /\ wind_obs' = [wind_obs EXCEPT !.ticks = @ + 1, !.tried = FALSE,
                                               !.read = "none"]
          ELSE /\ wind_pc' = "l_none"
               /\ UNCHANGED wind_obs
    /\ UNCHANGED <<coreVars, auxVars, streamVars, retVars, rfVars, iotVars, stats_every_n, wind_running,
                   wind_connected, wind_last_sample, wind_last_stats, wind_window,
                   wind_counter, wind_emit>>

\* lines 324-328: not connected, connect again
WindConnect(outcome) ==
    /\ wind_pc = "l_tick"
    /\ ~wind_connected
    /\ wind_connected' = (outcome = "true")
    /\ wind_pc' = "l_read"
    /\ wind_obs' = [wind_obs EXCEPT !.tried = TRUE]
    /\ UNCHANGED <<coreVars, auxVars, streamVars, retVars, rfVars, iotVars, stats_every_n, wind_running,
                   wind_last_sample, wind_last_stats, wind_window, wind_counter,
                   wind_emit>>

\* line 324: connected, nothing to do
WindConnected ==
    /\ wind_pc = "l_tick"
    /\ wind_connected
    /\ wind_pc' = "l_read"
    /\ UNCHANGED <<coreVars, auxVars, streamVars, retVars, rfVars, iotVars, stats_every_n, wind_running,
                   wind_connected, wind_last_sample, wind_last_stats, wind_window,
                   wind_counter, wind_emit, wind_obs>>

\* bug variant of WindReadFail: the exception leaves the loop
WindReadFail_EndsLoop ==
    /\ wind_pc = "l_read"
    /\ wind_connected' = FALSE
    /\ wind_pc' = "l_none"
    /\ wind_obs' = [wind_obs EXCEPT !.read = "failed", !.fails = @ + 1]
    /\ UNCHANGED <<coreVars, auxVars, streamVars, retVars, rfVars, iotVars, stats_every_n, wind_running,
                   wind_last_sample, wind_last_stats, wind_window, wind_counter,
                   wind_emit>>

\* lines 329-336: sensor.read() raises; no sample in this tick
WindReadFail ==
    /\ wind_pc = "l_read"
    /\ wind_connected' = FALSE
    /\ wind_pc' = "l_sleep"
    /\ wind_obs' = [wind_obs EXCEPT !.read = "failed", !.fails = @ + 1]
    /\ UNCHANGED <<coreVars, auxVars, streamVars, retVars, rfVars, iotVars, stats_every_n, wind_running,
                   wind_last_sample, wind_last_stats, wind_window, wind_counter,
                   wind_emit>>

\* bug variant of WindReadOk: the window is never cut
WindReadOk_NoTrim(sample) ==
    /\ wind_pc = "l_read"
    /\ wind_connected' = TRUE
    /\ wind_last_sample' = sample
    /\ wind_window' = Append(wind_window, sample)
    /\ wind_emit' = [event |-> "wind_sample", payload |-> sample]
    /\ wind_counter' = wind_counter + 1
    /\ wind_pc' = IF wind_counter + 1 >= stats_every_n THEN "l_stats" ELSE "l_sleep"
    /\ wind_obs' = [wind_obs EXCEPT !.read = "ok", !.succ = @ + 1,
                                    !.all = Append(@, sample)]
    /\ UNCHANGED <<coreVars, auxVars, streamVars, retVars, rfVars, iotVars, stats_every_n, wind_running,
                   wind_last_stats>>

\* lines 329-353: sensor.read() returns a sample; it is recorded, emitted
\* and counted
WindReadOk(sample) ==
    /\ wind_pc = "l_read"
    /\ wind_connected' = TRUE
    /\ wind_last_sample' = sample
    /\ wind_window' = LastN(Append(wind_window, sample), stats_every_n)
    /\ wind_emit' = [event |-> "wind_sample", payload |-> sample]
    /\ wind_counter' = wind_counter + 1
    /\ wind_pc' = IF wind_counter + 1 >= stats_every_n THEN "l_stats" ELSE "l_sleep"
    /\ wind_obs' = [wind_obs EXCEPT !.read = "ok", !.succ = @ + 1,
                                    !.all = Append(@, sample)]
    /\ UNCHANGED <<coreVars, auxVars, streamVars, retVars, rfVars, iotVars, stats_every_n, wind_running,
                   wind_last_stats>>

\* lines 353-364: the statistics of the window, stored and emitted
WindStats ==
    /\ wind_pc = "l_stats"
    /\ wind_counter' = 0
    /\ wind_last_stats' = ComputeStats(wind_window)
    /\ wind_emit' = [event |-> "wind_stats", payload |-> ComputeStats(wind_window)]
    /\ wind_pc' = "l_sleep"
    /\ wind_obs' = [wind_obs EXCEPT !.published = @ + 1,
                                    !.statsOver = LastN(wind_obs.all, stats_every_n)]
    /\ UNCHANGED <<coreVars, auxVars, streamVars, retVars, rfVars, iotVars, stats_every_n, wind_running,
                   wind_connected, wind_last_sample, wind_window>>

\* lines 366-368: the rest of the tick is slept
WindSleep ==
    /\ wind_pc = "l_sleep"
    /\ wind_pc' = "l_test"
    /\ wind_obs' = [wind_obs EXCEPT !.failed = (wind_obs.read = "failed")]
    /\ UNCHANGED <<coreVars, auxVars, streamVars, retVars, rfVars, iotVars, stats_every_n, wind_running,
                   wind_connected, wind_last_sample, wind_last_stats, wind_window,
                   wind_counter, wind_emit>>

NextWind ==
    \/ WindStart
    \/ WindStop
    \/ \E outcome \in ConnectOutcomes : WindInitialConnect(outcome)
    \/ WindTest
    \/ \E outcome \in ConnectOutcomes : WindConnect(outcome)
    \/ WindConnected
    \/ WindReadFail
    \/ \E sample \in WindSamples(wind_obs.ticks) : WindReadOk(sample)
    \/ WindStats
    \/ WindSleep

\* a wind service of any stats_every_n
InitWind ==
    /\ CoreInit
    /\ dphi_deg = 90        \* the damage logger's layout plays no part here
    /\ StreamInit(DefaultStreamCfg)
    /\ RetInit(DefaultRetention)
    /\ \E n \in 1..MaxStatsN : WindInit(n)
    /\ RfInit
    /\ IotInit
    /\ AuxInit

SpecWind == InitWind /\ [][NextWind]_vars

-----------------------------------------------------------------------------
(* Part 7: the fatigue computation of one direction (analysis.py).

   stress_phi is a sequence of whole numbers of MPa.  A count is kept in
   half cycles, so that HalfCycleCount is the 0.5 of the code, and the
   stress amplitude range / 2 is kept doubled: the comparisons of line 171
   are made on 2 * Sa.  asme_sn_cycles is not evaluated: its result is
   Infinite or the finite positive number of cycles to failure at 2 * Sa, and
   Dk is the sequence of the terms n / Ni added to it. *)

MaxSigLen == 4

HalfCycleCount == 1

SaMin == 48

SaMax == 3999

\* stress values whose differences lie on both sides of the two limits
StressValues == {0, 1, 2 * SaMin, 2 * SaMax + 1}

Signals == UNION {[1..n -> StressValues] : n \in 1..MaxSigLen}

\* the turning points of lines 73-79
RECURSIVE InteriorTurningPoints(_, _)
InteriorTurningPoints(x, i) ==
    IF i > Len(x) - 1
    THEN <<>>
    ELSE LET prev == x[i - 1]
             curr == x[i]
             nxt == x[i + 1]
         IN  (IF (curr - prev) * (nxt - curr) <= 0 THEN <<curr>> ELSE <<>>)
                 \o InteriorTurningPoints(x, i + 1)

TurningPoints(x) == <<x[1]>> \o InteriorTurningPoints(x, 2) \o <<x[Len(x)]>>

\* stack.pop(-2)
PopSecondLast(stack) ==
    SubSeq(stack, 1, Len(stack) - 2) \o <<stack[Len(stack)]>>

\* the loop of lines 99-101
ResidualRanges(stack) ==
    [i \in 1..(Len(stack) - 1) |-> Abs(stack[i + 1] - stack[i])]

\* math.inf
Infinite == [inf |-> TRUE, cycles_at |-> 0]

\* the finite, positive 10 ** X of line 129 at a doubled amplitude
CyclesAt(sa2) == [inf |-> FALSE, cycles_at |-> sa2]

\* asme_sn_cycles, for a doubled amplitude
AsmeSnCycles(sa2) ==
    IF sa2 <= 0 THEN Infinite ELSE CyclesAt(sa2)

\* `Ni and Ni > 0`
UsableCycles(Ni) == Ni.inf \/ Ni.cycles_at > 0

\* fatigue_damage calls rainflow_ranges_counts(stress_phi)
FdCall(sig) ==
    /\ rf_pc = "fd_idle"
    /\ rf_sig' = sig
    /\ rf_tp' = <<>>
    /\ rf_stack' = <<>>
    /\ rf_ranges' = <<>>
    /\ rf_counts' = <<>>
    /\ rf_i' = 1
    /\ rf_terms' = <<>>
    /\ rf_pc' = "rf_tp"
    /\ UNCHANGED <<coreVars, auxVars, streamVars, retVars, windVars, iotVars>>

\* lines 70-84: the early return, or the turning points
RfTurningPoints ==
    /\ rf_pc = "rf_tp"
    /\ IF Len(rf_sig) < 2
       THEN /\ rf_pc' = "fd_sum"
            /\ UNCHANGED rf_tp
       ELSE /\ rf_tp' = TurningPoints(rf_sig)
            /\ rf_pc' = "rf_push"
    /\ UNCHANGED <<coreVars, auxVars, streamVars, retVars, windVars, iotVars, rf_sig, rf_stack,
                   rf_ranges, rf_counts, rf_i, rf_terms>>

\* lines 86-87, and the end of the loop
RfPush ==
    /\ rf_pc = "rf_push"
    /\ IF rf_i <= Len(rf_tp)
       THEN /\ rf_stack' = Append(rf_stack, rf_tp[rf_i])
            /\ rf_i' = rf_i + 1
            /\ rf_pc' = "rf_merge"
       ELSE /\ rf_pc' = "rf_resid"
            /\ UNCHANGED <<rf_stack, rf_i>>
    /\ UNCHANGED <<coreVars, auxVars, streamVars, retVars, windVars, iotVars, rf_sig, rf_tp,
                   rf_ranges, rf_counts, rf_terms>>

\* one iteration of the while loop of lines 88-97, with a full cycle counted
RfMerge_FullCycle ==
    /\ rf_pc = "rf_merge"
    /\ IF Len(rf_stack) >= 3
       THEN LET s0 == rf_stack[Len(rf_stack) - 2]
                s1 == rf_stack[Len(rf_stack) - 1]
                s2 == rf_stack[Len(rf_stack)]
                r1 == Abs(s1 - s0)
                r2 == Abs(s2 - s1)
            IN  IF r1 <= r2
                THEN /\ rf_ranges' = Append(rf_ranges, r1)
                     /\ rf_counts' = Append(rf_counts, 2 * HalfCycleCount)
                     /\ rf_stack' = PopSecondLast(rf_stack)
                     /\ UNCHANGED rf_pc
                ELSE /\ rf_pc' = "rf_push"
                     /\ UNCHANGED <<rf_ranges, rf_counts, rf_stack>>
       ELSE /\ rf_pc' = "rf_push"
            /\ UNCHANGED <<rf_ranges, rf_counts, rf_stack>>
    /\ UNCHANGED <<coreVars, auxVars, streamVars, retVars, windVars, iotVars, rf_sig, rf_tp,
                   rf_i, rf_terms>>

\* one iteration of the while loop of lines 88-97
RfMerge ==
    /\ rf_pc = "rf_merge"
    /\ IF Len(rf_stack) >= 3
       THEN LET s0 == rf_stack[Len(rf_stack) - 2]
                s1 == rf_stack[Len(rf_stack) - 1]
                s2 == rf_stack[Len(rf_stack)]
                r1 == Abs(s1 - s0)
                r2 == Abs(s2 - s1)
            IN  IF r1 <= r2
                THEN /\ rf_ranges' = Append(rf_ranges, r1)
                     /\ rf_counts' = Append(rf_counts, HalfCycleCount)
                     /\ rf_stack' = PopSecondLast(rf_stack)
                     /\ UNCHANGED rf_pc
                ELSE /\ rf_pc' = "rf_push"
                     /\ UNCHANGED <<rf_ranges, rf_counts, rf_stack>>
       ELSE /\ rf_pc' = "rf_push"
            /\ UNCHANGED <<rf_ranges, rf_counts, rf_stack>>
    /\ UNCHANGED <<coreVars, auxVars, streamVars, retVars, windVars, iotVars, rf_sig, rf_tp,
                   rf_i, rf_terms>>

\* lines 99-103
RfResidual ==
    /\ rf_pc = "rf_resid"
    /\ rf_ranges' = rf_ranges \o ResidualRanges(rf_stack)
    /\ rf_counts' = rf_counts
                      \o [i \in 1..(Len(rf_stack) - 1) |-> HalfCycleCount]
    /\ rf_pc' = "fd_sum"
    /\ UNCHANGED <<coreVars, auxVars, streamVars, retVars, windVars, iotVars, rf_sig, rf_tp,
                   rf_stack, rf_i, rf_terms>>

\* the terms of lines 168-175, with the lower limit excluded
DamageTerms_LimitExcluded(ranges, counts) ==
    LET Term(i) == [n |-> counts[i], Ni |-> AsmeSnCycles(ranges[i])]
        Added(i) ==
            /\ ~(ranges[i] <= 0)
            /\ ~(ranges[i] <= 2 * SaMin \/ ranges[i] > 2 * SaMax)
            /\ UsableCycles(AsmeSnCycles(ranges[i]))
        RECURSIVE Loop(_)
        Loop(i) ==
            IF i > Len(ranges)
            THEN <<>>
            ELSE (IF Added(i) THEN <<Term(i)>> ELSE <<>>) \o Loop(i + 1)
    IN  Loop(1)

\* the terms of lines 168-175
DamageTerms(ranges, counts) ==
    LET Term(i) == [n |-> counts[i], Ni |-> AsmeSnCycles(ranges[i])]
        Added(i) ==
            /\ ~(ranges[i] <= 0)
            /\ ~(ranges[i] < 2 * SaMin \/ ranges[i] > 2 * SaMax)
            /\ UsableCycles(AsmeSnCycles(ranges[i]))
        RECURSIVE Loop(_)
        Loop(i) ==
            IF i > Len(ranges)
            THEN <<>>
            ELSE (IF Added(i) THEN <<Term(i)>> ELSE <<>>) \o Loop(i + 1)
    IN  Loop(1)

\* lines 161-176: the damage of the direction
FdSum ==
    /\ rf_pc = "fd_sum"
    /\ rf_terms' = DamageTerms(rf_ranges, rf_counts)
    /\ rf_pc' = "fd_done"
    /\ UNCHANGED <<coreVars, auxVars, streamVars, retVars, windVars, iotVars, rf_sig, rf_tp,
                   rf_stack, rf_ranges, rf_counts, rf_i>>

\* the direction is finished
FdNext ==
    /\ rf_pc = "fd_done"
    /\ rf_pc' = "fd_idle"
    /\ UNCHANGED <<coreVars, auxVars, streamVars, retVars, windVars, iotVars, rf_sig, rf_tp,
                   rf_stack, rf_ranges, rf_counts, rf_i, rf_terms>>

NextFatigue ==
    \/ \E sig \in Signals : FdCall(sig)
    \/ RfTurningPoints
    \/ RfPush
    \/ RfMerge
    \/ RfResidual
    \/ FdSum
    \/ FdNext

SpecFatigue == Init /\ [][NextFatigue]_vars

-----------------------------------------------------------------------------
(* Part 8: the IoT publisher and its control subscriber (iot.py).

   on_message runs on the thread of the subscriber client and publish on the
   thread of its caller.  on_message is one step: it only reads the allow
   list and writes the remote flag.  publish is two steps, the test of line
   270 and the sink, so that a control message can arrive between them. *)

Ctl == "/control/stream"

StreamSeg == "/stream/"

\* str.strip() and str.rstrip(ch)
RECURSIVE RStripOf(_, _)
RStripOf(s, ch) ==
    IF s # <<>> /\ s[Len(s)] = ch
    THEN RStripOf(SubSeq(s, 1, Len(s) - 1), ch)
    ELSE s

RECURSIVE LStripOf(_, _)
LStripOf(s, ch) ==
    IF s # <<>> /\ s[1] = ch THEN LStripOf(Tail(s), ch) ELSE s

Strip(s) == LStripOf(RStripOf(s, " "), " ")

\* s.split(sep)[0]
RECURSIVE SplitFirst(_, _)
SplitFirst(s, sep) ==
    IF s = <<>> \/ s[1] = sep
    THEN <<>>
    ELSE <<s[1]>> \o SplitFirst(Tail(s), sep)

\* `sub in s`
Contains(s, sub) == \E i \in 1..Len(s) : s[i] = sub

\* the topics the subscription "+/control/stream" delivers, and two with a
\* longer prefix that a configured control_topic delivers
ControlTopics ==
    {p \o <<Ctl>> : p \in {<<>>, <<"a">>, <<"b">>, <<"a", "/">>, <<" ", "a">>}}

PayloadNames == {None, Some(<<>>), Some(<<"a">>), Some(<<"b">>), Some(<<"a", " ">>)}

\* a JSON object with its key "enabled" absent, a boolean or the string "on",
\* a payload that is not a JSON object, or an empty payload
ControlPayloads ==
    [kind : {"dict"}, enabled : {"absent", "true", "false", "on"},
     display_name : PayloadNames, timestamp : 0..1]
    \cup [kind : {"text"}, enabled : {"true", "false", "junk"},
          display_name : {None}, timestamp : {0}]
    \cup [kind : {"empty"}, enabled : {"absent"}, display_name : {None},
          timestamp : {0}]

\* the display names of the devices of a configuration
ConfiguredNames == {<<"a">>, <<"b">>, <<"a", " ">>, <<" ">>}

PublishTopics ==
    {<<>>, <<"a", StreamSeg, "vib">>, <<"a", "/data/", "vib">>, <<"a", "/stream">>}

\* _config["topic"]
ConfigTopic == <<"cdaq", "/data">>

\* _parse_stream_enabled
ParseStreamEnabled(payload) ==
    LET Parsed(e, d, t) == [enabled |-> e, display_name |-> d, timestamp |-> t]
    IN  CASE payload.kind = "empty" -> Parsed("None", None, 0)
          [] payload.kind = "dict" ->
                CASE payload.enabled = "absent" ->
                        Parsed("None", payload.display_name, payload.timestamp)
                  [] payload.enabled = "true" ->
                        Parsed("True", payload.display_name, payload.timestamp)
                  [] payload.enabled = "false" ->
                        Parsed("False", payload.display_name, payload.timestamp)
                  [] OTHER -> Parsed("True", None, 0)
          [] OTHER ->
                CASE payload.enabled = "true" -> Parsed("True", None, 0)
                  [] payload.enabled = "false" -> Parsed("False", None, 0)
                  [] OTHER -> Parsed("None", None, 0)

\* _is_stream_enabled
IsStreamEnabled == stream_enabled_local \/ stream_enabled_remote

\* set_config
SetConfig(type, connects) ==
    /\ iot_type' = type
    /\ sub_client' = IF type = "mqtt" THEN sub_client \/ connects ELSE FALSE
    /\ UNCHANGED <<coreVars, auxVars, streamVars, retVars, windVars, rfVars,
                   stream_enabled_local, stream_enabled_remote,
                   control_display_names, iot_msg, pub_topic, pub_out, pub_pc>>

\* set_control_display_names
SetControlDisplayNames(names) ==
    /\ control_display_names' = {Strip(n) : n \in names} \ {<<>>}
    /\ UNCHANGED <<coreVars, auxVars, streamVars, retVars, windVars, rfVars, iot_type,
                   sub_client, stream_enabled_local, stream_enabled_remote,
                   iot_msg, pub_topic, pub_out, pub_pc>>

\* set_stream_enabled(enabled), source "local"
SetStreamEnabledLocal(enabled) ==
    /\ stream_enabled_local' = enabled
    /\ UNCHANGED <<coreVars, auxVars, streamVars, retVars, windVars, rfVars, iot_type,
                   sub_client, stream_enabled_remote, control_display_names,
                   iot_msg, pub_topic, pub_out, pub_pc>>

\* whether on_message reaches set_stream_enabled(enabled, source="remote")
Honoured(topic, parsed, names) ==
    LET name_from_topic == RStripOf(SplitFirst(topic, Ctl), "/")
    IN  /\ parsed.enabled # "None"
        /\ ~parsed.display_name.none
        /\ parsed.display_name.v # <<>>
        /\ parsed.timestamp # 0
        /\ name_from_topic # <<>> =>
              /\ ~(names # {} /\ name_from_topic \notin names)
              /\ ~(Strip(parsed.display_name.v) # name_from_topic)

\* on_message of the control subscriber
OnMessage(topic, payload) ==
    LET parsed == ParseStreamEnabled(payload)
    IN  /\ sub_client
        /\ iot_msg' = [topic |-> topic, display_name |-> payload.display_name]
        /\ stream_enabled_remote' =
              IF Honoured(topic, parsed, control_display_names)
              THEN parsed.enabled = "True"
              ELSE stream_enabled_remote
        /\ UNCHANGED <<coreVars, auxVars, streamVars, retVars, windVars, rfVars,
                       iot_type, sub_client, stream_enabled_local,
                       control_display_names, pub_topic, pub_out, pub_pc>>

\* publish, line 270, with every topic gated
PublishCall_GatesAll(topic) ==
    /\ pub_pc = "p_idle"
    /\ pub_topic' = topic
    /\ pub_out' = {}
    /\ pub_pc' = IF ~IsStreamEnabled THEN "p_suppressed" ELSE "p_sink"
    /\ UNCHANGED <<coreVars, auxVars, streamVars, retVars, windVars, rfVars, iot_type,
                   sub_client, stream_enabled_local, stream_enabled_remote,
                   control_display_names, iot_msg>>

\* publish, line 270
PublishCall(topic) ==
    /\ pub_pc = "p_idle"
    /\ pub_topic' = topic
    /\ pub_out' = {}
    /\ pub_pc' = IF topic # <<>> /\ Contains(topic, StreamSeg)
                     /\ ~IsStreamEnabled
                 THEN "p_suppressed"
                 ELSE "p_sink"
    /\ UNCHANGED <<coreVars, auxVars, streamVars, retVars, windVars, rfVars, iot_type,
                   sub_client, stream_enabled_local, stream_enabled_remote,
                   control_display_names, iot_msg>>

\* a message or a record of the JSONL log, with the topic it carries
Out(sink, topic, what) ==
    [sink |-> sink, topic |-> IF topic # <<>> THEN topic ELSE ConfigTopic,
     what |-> what]

\* what _publish_mqtt or _publish_log emits when it does not raise
Emitted(type, topic) ==
    IF type = "mqtt"
    THEN {Out("mqtt", topic, "payload"), Out("jsonl", topic, "publish_ok")}
    ELSE {Out("jsonl", topic, "payload")}

\* the record {error, payload} of line 279
ErrorRecord(topic) == Out("jsonl", topic, "error")

\* publish, lines 271-276: the sink returns, or raises into the handler
PublishSink(ok) ==
    /\ pub_pc = "p_sink"
    /\ IF ok
       THEN /\ pub_out' = Emitted(iot_type, pub_topic)
            /\ pub_pc' = "p_returned"
       ELSE /\ pub_pc' = "p_except"
            /\ UNCHANGED pub_out
    /\ UNCHANGED <<coreVars, auxVars, streamVars, retVars, windVars, rfVars, iot_type,
                   sub_client, stream_enabled_local, stream_enabled_remote,
                   control_display_names, iot_msg, pub_topic>>

\* the handler of lines 277-281 without its inner try
PublishExcept_NoInnerTry(logged) ==
    /\ pub_pc = "p_except"
    /\ IF logged
       THEN /\ pub_out' = {ErrorRecord(pub_topic)}
            /\ pub_pc' = "p_handled"
       ELSE /\ pub_pc' = "p_raised"
            /\ UNCHANGED pub_out
    /\ UNCHANGED <<coreVars, auxVars, streamVars, retVars, windVars, rfVars, iot_type,
                   sub_client, stream_enabled_local, stream_enabled_remote,
                   control_display_names, iot_msg, pub_topic>>

\* publish, lines 277-281: _log_record writes the error record, or raises
\* too and the error is printed
PublishExcept(logged) ==
    /\ pub_pc = "p_except"
    /\ pub_out' = IF logged THEN {ErrorRecord(pub_topic)} ELSE {}
    /\ pub_pc' = "p_handled"
    /\ UNCHANGED <<coreVars, auxVars, streamVars, retVars, windVars, rfVars, iot_type,
                   sub_client, stream_enabled_local, stream_enabled_remote,
                   control_display_names, iot_msg, pub_topic>>

\* publish returns to its caller
PublishReturn ==
    /\ pub_pc \in {"p_suppressed", "p_returned", "p_handled"}
    /\ pub_pc' = "p_idle"
    /\ UNCHANGED <<coreVars, auxVars, streamVars, retVars, windVars, rfVars, iot_type,
                   sub_client, stream_enabled_local, stream_enabled_remote,
                   control_display_names, iot_msg, pub_topic, pub_out>>

NextIot ==
    \/ \E type \in {"log", "mqtt"}, connects \in BOOLEAN :
          SetConfig(type, connects)
    \/ \E names \in SUBSET ConfiguredNames : SetControlDisplayNames(names)
    \/ \E enabled \in BOOLEAN : SetStreamEnabledLocal(enabled)
    \/ \E topic \in ControlTopics, payload \in ControlPayloads :
          OnMessage(topic, payload)
    \/ \E topic \in PublishTopics : PublishCall(topic)
    \/ \E ok \in BOOLEAN : PublishSink(ok)
    \/ \E logged \in BOOLEAN : PublishExcept(logged)
    \/ PublishReturn

\* the module after its import; the step of the damage sectors is fixed
InitIot ==
    /\ CoreInit
    /\ dphi_deg = 90
    /\ StreamInit(DefaultStreamCfg)
    /\ RetInit(DefaultRetention)
    /\ WindInit(MaxStatsN)
    /\ RfInit
    /\ IotInit
    /\ AuxInit

SpecIot == InitIot /\ [][NextIot]_vars

-----------------------------------------------------------------------------
(* Part 9: the validation of the two sample rates (app.py,
   _build_device_manager).  A configured value is missing, a number, a
   string int() accepts, or a string int() raises on. *)

MinHardwareRate == 1600

DefaultRequestedRate == 1600

Text(n) == [kind |-> "text", v |-> n]

Junk == [kind |-> "junk", v |-> 0]

RateNumbers ==
    {0 - 1, 0, 1, 800, MinHardwareRate - 1, MinHardwareRate,
     MinHardwareRate + 1, 2 * MinHardwareRate}

RateValues ==
    {Missing, Junk} \cup {Number(n) : n \in RateNumbers}
        \cup {Text(n) : n \in {800, 2 * MinHardwareRate}}

RateCfgs == [sample_rate : RateValues, effective_sample_rate : RateValues]

\* `value or default`, for a configured value and a number
OrElse(value, default) ==
    IF value.kind = "missing" \/ (value.kind = "number" /\ value.v = 0)
    THEN Number(default)
    ELSE value

\* try: int(value) except: fallback
IntOr(value, fallback) == IF value.kind = "junk" THEN fallback ELSE value.v

\* lines 36-42
RequestedRate(cfg) ==
    LET requested_rate == IntOr(OrElse(cfg.sample_rate, 0), 0)
    IN  IF requested_rate <= 0 THEN DefaultRequestedRate ELSE requested_rate

\* lines 44-48
EffectiveRate(cfg) ==
    IntOr(OrElse(cfg.effective_sample_rate, RequestedRate(cfg)),
          RequestedRate(cfg))

\* lines 50-57, without the clamp of lines 56-57
ValidatedRates_NoClamp(cfg) ==
    LET requested_rate == RequestedRate(cfg)
        hardware_rate ==
            IF requested_rate < MinHardwareRate
            THEN MinHardwareRate
            ELSE requested_rate
        effective_rate ==
            IF requested_rate < MinHardwareRate
            THEN requested_rate
            ELSE EffectiveRate(cfg)
    IN  [sample_rate |-> hardware_rate,
         effective_sample_rate |-> effective_rate]

\* lines 50-57
ValidatedRates(cfg) ==
    LET requested_rate == RequestedRate(cfg)
        hardware_rate ==
            IF requested_rate < MinHardwareRate
            THEN MinHardwareRate
            ELSE requested_rate
        effective_rate ==
            IF requested_rate < MinHardwareRate
            THEN requested_rate
            ELSE EffectiveRate(cfg)
    IN  [sample_rate |-> hardware_rate,
         effective_sample_rate |->
            IF effective_rate > hardware_rate
            THEN hardware_rate
            ELSE effective_rate]

\* _build_device_manager(cfg), its two rates
BuildDeviceManager(cfg) ==
    /\ rate_cfg' = cfg
    /\ sys_cfg' = ValidatedRates(cfg)
    /\ UNCHANGED <<coreVars, partVars, csvVars, raceVars, lateVars>>

NextRates == \E cfg \in RateCfgs : BuildDeviceManager(cfg)

SpecRates == Init /\ [][NextRates]_vars

-----------------------------------------------------------------------------
(* Part 10: DamageLogger.write_window on the data directory the devices
   share (device.py 88-90: every device's logger gets backend/data).

   A call is made on the analysis worker thread of its device, with the
   parameters write_window has.  It is two steps: the test of line 212, and
   the block of lines 213-219, whose rows reach the file together when the
   file is closed.  A row is "header" or the name of the device. *)

\* line 212: file_exists = file_path.exists()
WwExists(d, day) ==
    /\ ww_pc[d] = "w_idle"
    /\ Len(csv_files[day]) < MaxCsvRows
    /\ ww_day' = [ww_day EXCEPT ![d] = day]
    /\ ww_file_exists' = [ww_file_exists EXCEPT ![d] = csv_files[day] # <<>>]
    /\ ww_pc' = [ww_pc EXCEPT ![d] = "w_open"]
    /\ UNCHANGED <<coreVars, partVars, rateVars, raceVars, lateVars, csv_files>>

\* lines 213-219: the header when the file did not exist, then the rows
WwAppend(d) ==
    /\ ww_pc[d] = "w_open"
    /\ csv_files' =
          [csv_files EXCEPT ![ww_day[d]] =
              @ \o (IF ww_file_exists[d] THEN <<>> ELSE <<"header">>)
                \o <<d>>]
    /\ ww_pc' = [ww_pc EXCEPT ![d] = "w_idle"]
    /\ UNCHANGED <<coreVars, partVars, rateVars, raceVars, lateVars, ww_day, ww_file_exists>>

NextCsv ==
    \/ \E d \in Devices, day \in 1..MaxCsvDays : WwExists(d, day)
    \/ \E d \in Devices : WwAppend(d)

SpecCsv == Init /\ [][NextCsv]_vars

-----------------------------------------------------------------------------
(* Part 11: DAQDevice.reset_damage on the API thread against the window
   boundary of the analysis worker thread.  Neither DamageLogger nor
   DAQDevice takes a lock, so the two threads interleave between any two
   reads or writes of the logger's fields.  _write_cumulative is one step
   here (its steps are Part 1).  The window has the number of bins of the
   record, as fatigue_damage and _default_bins both give 72. *)

Unlogged == <<pc, op, data, obs, dphi_deg>>

\* analysis_worker.py 152-159: fatigue_damage has returned `w` and the
\* worker calls update_cumulative(fatigue, ts)
UpdCall(w) ==
    /\ upc = "u_idle"
    /\ xobs.updates < MaxUpdates
    /\ w.D_phi # <<>>
    /\ ~NeedRemap(cum_phi, cum_damage, w)
    /\ fatigue' = w
    /\ upc' = "u_read"
    /\ xobs' = [xobs EXCEPT !.after_reset = FALSE,
                            !.overlap = (xpc = "x_write"),
                            !.updates = @ + 1]
    /\ UNCHANGED <<Unlogged, memVars, fileVars, clock, pipeVars, devVars,
                   partVars, rateVars, csvVars, lateVars, u_cum, xpc>>

\* damage_logger.py 118: self.cum_damage is read for the zip
UpdRead ==
    /\ upc = "u_read"
    /\ u_cum' = cum_damage
    /\ upc' = "u_assign"
    /\ UNCHANGED <<loggerVars, clock, pipeVars, devVars, partVars, rateVars,
                   csvVars, lateVars, xpc, xobs>>

\* damage_logger.py 118-119: the sums are assigned
UpdAssign ==
    /\ upc = "u_assign"
    /\ cum_damage' = ZipAdd(u_cum, fatigue.D_phi)
    /\ cum_timestamp' = clock
    /\ upc' = "u_result"
    /\ UNCHANGED <<Unlogged, cum_phi, fileVars, fatigue, clock, pipeVars,
                   devVars, partVars, rateVars, csvVars, lateVars, u_cum, xpc, xobs>>

\* damage_logger.py 121-127: the cumulative keys of the dict
UpdResult ==
    /\ upc = "u_result"
    /\ fatigue' =
          [fatigue EXCEPT
              !.D_phi_cum = cum_damage,
              !.D_cum_max = IF cum_damage # <<>> THEN MaxOf(cum_damage) ELSE 0,
              !.phi_deg_cum = IF cum_damage # <<>>
                              THEN cum_phi[IndexOf(cum_damage, MaxOf(cum_damage))]
                              ELSE 0]
    /\ upc' = "u_write"
    /\ UNCHANGED <<Unlogged, memVars, fileVars, clock, pipeVars, devVars,
                   partVars, rateVars, csvVars, lateVars, u_cum, xpc, xobs>>

\* _write_cumulative, called by either thread
WriteCumulative ==
    /\ backup_file' = IF damage_file.exists
                      THEN File(damage_file.text) ELSE backup_file
    /\ damage_file' = File(Dumps(Payload(cum_timestamp, cum_phi, cum_damage)))
    /\ UNCHANGED tmp_file

\* damage_logger.py 129-130: the record is persisted and the dict returned
UpdWrite ==
    /\ upc = "u_write"
    /\ WriteCumulative
    /\ upc' = "u_return"
    /\ UNCHANGED <<Unlogged, memVars, fatigue, clock, pipeVars, devVars,
                   partVars, rateVars, csvVars, lateVars, u_cum, xpc, xobs>>

\* analysis_worker.py 166: self.last_fatigue = fatigue
UpdLastFatigue ==
    /\ upc = "u_return"
    /\ last_fatigue' = fatigue
    /\ upc' = "u_done"
    /\ UNCHANGED <<loggerVars, clock, queue, aw_running, samplerVars, wpc, now,
                   log_window_start, start_ts, log_stats, analysis_buffers,
                   csv_file, iot_log, wobs, devVars, partVars, rateVars,
                   csvVars, lateVars, u_cum, xpc, xobs>>

\* analysis_worker.py 170-215: the rest of the boundary
BoundaryEnd ==
    /\ upc = "u_done"
    /\ upc' = "u_idle"
    /\ UNCHANGED <<coreVars, partVars, rateVars, csvVars, lateVars, u_cum, xpc, xobs>>

\* reset_cumulative, lines 134-135: the zeros are assigned
ResetAssign ==
    /\ xpc = "x_idle"
    /\ cum_phi' = DefaultBins(dphi_deg).phi
    /\ cum_damage' = DefaultBins(dphi_deg).dmg
    /\ cum_timestamp' = clock
    /\ xpc' = "x_write"
    /\ xobs' = [xobs EXCEPT
                  !.after_reset = FALSE,
                  !.overlap = upc \in {"u_read", "u_assign", "u_result", "u_write"}]
    /\ UNCHANGED <<Unlogged, fileVars, fatigue, clock, pipeVars, devVars,
                   partVars, rateVars, csvVars, lateVars, upc, u_cum>>

\* reset_cumulative, line 136: the zeros are persisted
ResetWrite ==
    /\ xpc = "x_write"
    /\ WriteCumulative
    /\ xpc' = "x_clear"
    /\ UNCHANGED <<Unlogged, memVars, fatigue, clock, pipeVars, devVars,
                   partVars, rateVars, csvVars, lateVars, upc, u_cum, xobs>>

\* device.py 447: self.analysis_worker.last_fatigue = None
ResetClear ==
    /\ xpc = "x_clear"
    /\ last_fatigue' = NoFatigue
    /\ xpc' = "x_snap"
    /\ UNCHANGED <<loggerVars, clock, queue, aw_running, samplerVars, wpc, now,
                   log_window_start, start_ts, log_stats, analysis_buffers,
                   csv_file, iot_log, wobs, devVars, partVars, rateVars,
                   csvVars, lateVars, upc, u_cum, xobs>>

\* device.py 448: reset_damage returns the snapshot
ResetReturn ==
    /\ xpc = "x_snap"
    /\ xpc' = "x_idle"
    /\ xobs' = [xobs EXCEPT !.after_reset = TRUE]
    /\ UNCHANGED <<coreVars, partVars, rateVars, csvVars, lateVars, upc, u_cum>>

\* DAQDevice.get_fatigue_snapshot: the keys the dashboard shows
GetFatigueSnapshot ==
    LET lf == last_fatigue
    IN  IF lf # NoFatigue
        THEN [Dmax |-> IF lf.D_phi # <<>> THEN MaxOf(lf.D_phi) ELSE 0,
              D_phi |-> lf.D_phi,
              D_phi_cum |-> lf.D_phi_cum]
        ELSE [Dmax |-> 0, D_phi |-> <<>>, D_phi_cum |-> cum_damage]

NextRace ==
    \/ \E w \in Windows : UpdCall(w)
    \/ UpdRead
    \/ UpdAssign
    \/ UpdResult
    \/ UpdWrite
    \/ UpdLastFatigue
    \/ BoundaryEnd
    \/ ResetAssign
    \/ ResetWrite
    \/ ResetClear
    \/ ResetReturn

SpecRace == Init /\ [][NextRace]_vars

-----------------------------------------------------------------------------
(* Part 12: the unit conversion of the accumulated channel-0 and channel-1
   acceleration at a window boundary.  Values are fixed-point with five
   decimals so that the factor 9.80665 is exact: a raw sample x is x * 10^5,
   a converted one x * 980665. *)

FixedOne == 100000

Gravity == 980665

Units == {"g", "G", "m/s2", ""}

AccSamples == {-1, 2}

\* str.lower() on the unit strings in use
Lower(u) == IF u = "G" THEN "g" ELSE u

\* np.array(buf, dtype=float): the samples as they are
AsArray(buf) == [i \in 1..Len(buf) |-> buf[i] * FixedOne]

\* analysis_worker.py 80-93: data * 9.80665 when the lowered unit is "g"
ToMs2(unit, buf) ==
    IF Lower(unit) = "g"
    THEN [i \in 1..Len(buf) |-> buf[i] * Gravity]
    ELSE AsArray(buf)

\* the worker is built with the units of the two channels
SetChannelsCfg(u0, u1) ==
    /\ bpc = "b_accumulate"
    /\ buffers01 = <<<<>>, <<>>>>
    /\ channels_cfg' = <<u0, u1>>
    /\ UNCHANGED <<coreVars, partVars, rateVars, csvVars, raceVars, shareVars,
                   buffers01, fd_in, disp_in, bpc>>

\* analysis_worker.py 138-144: a chunk extends analysis_buffers[0] and [1]
Accumulate01(x, y) ==
    /\ bpc = "b_accumulate"
    /\ Len(buffers01[1]) < MaxBufLen
    /\ buffers01' = <<Append(buffers01[1], x), Append(buffers01[2], y)>>
    /\ UNCHANGED <<coreVars, partVars, rateVars, csvVars, raceVars, shareVars,
                   channels_cfg, fd_in, disp_in, bpc>>

\* analysis_worker.py 150-151: ax and ay
FatigueArgs == <<AsArray(buffers01[1]), AsArray(buffers01[2])>>

\* analysis_worker.py 146-158: the boundary calls fatigue_damage(ax, ay, ...)
BoundaryFatigue ==
    /\ bpc = "b_accumulate"
    /\ fd_in' = FatigueArgs
    /\ bpc' = "b_disp"
    /\ UNCHANGED <<coreVars, partVars, rateVars, csvVars, raceVars, shareVars,
                   channels_cfg, buffers01, disp_in>>

\* analysis_worker.py 171-174: _compute_disp_stats on the same buffers
BoundaryDispStats ==
    /\ bpc = "b_disp"
    /\ disp_in' = <<ToMs2(channels_cfg[1], buffers01[1]),
                    ToMs2(channels_cfg[2], buffers01[2])>>
    /\ bpc' = "b_end"
    /\ UNCHANGED <<coreVars, partVars, rateVars, csvVars, raceVars, shareVars,
                   channels_cfg, buffers01, fd_in>>

\* analysis_worker.py 214-215: the buffers are cleared for the next window;
\* the arrays of this boundary are gone with it
BoundaryClear ==
    /\ bpc = "b_end"
    /\ buffers01' = <<<<>>, <<>>>>
    /\ fd_in' = <<<<>>, <<>>>>
    /\ disp_in' = <<<<>>, <<>>>>
    /\ bpc' = "b_accumulate"
    /\ UNCHANGED <<coreVars, partVars, rateVars, csvVars, raceVars, shareVars,
                   channels_cfg>>

NextUnits ==
    \/ \E u0, u1 \in Units : SetChannelsCfg(u0, u1)
    \/ \E x, y \in AccSamples : Accumulate01(x, y)
    \/ BoundaryFatigue
    \/ BoundaryDispStats
    \/ BoundaryClear

SpecUnits == Init /\ [][NextUnits]_vars

-----------------------------------------------------------------------------
(* Part 13: the DamageLoggers of all configured devices.  Each logger keeps
   its own record in memory and writes damage_cumulative.txt, .bak and
   .txt.tmp in the directory its device gives it.  A record has one bin
   here; the write protocol is that of Part 1, one step per file. *)

\* damage_logger.py 15-16 and 83: the files of device `d`'s logger
FilesOf(d) == dir_files[DataDir(d)]

\* lines 67-75: the payload of device `d`'s logger
RecordOf(d) == [exists |-> TRUE, device |-> d, D_phi_cum |-> lg_cum[d]]

ShareFrame == <<coreVars, partVars, rateVars, csvVars, raceVars, unitVars>>

\* update_cumulative on device `d`'s worker thread, up to _write_cumulative
LgUpdate(d) ==
    /\ lg_pc[d] = "idle"
    /\ lg_updates < MaxLogUpdates
    /\ lg_updates' = lg_updates + 1
    /\ lg_cum' = [lg_cum EXCEPT ![d] = ZipAdd(@, <<1>>)]
    /\ lg_pc' = [lg_pc EXCEPT ![d] = "backup"]
    /\ UNCHANGED <<ShareFrame, dir_files>>

\* reset_cumulative of device `d`, up to _write_cumulative
LgReset(d) ==
    /\ lg_pc[d] = "idle"
    /\ lg_cum' = [lg_cum EXCEPT ![d] = <<0>>]
    /\ lg_pc' = [lg_pc EXCEPT ![d] = "backup"]
    /\ UNCHANGED <<ShareFrame, dir_files, lg_updates>>

\* lines 78-82: the backup is written from the primary, if there is one
LgBackup(d) ==
    /\ lg_pc[d] = "backup"
    /\ dir_files' = [dir_files EXCEPT ![DataDir(d)].backup =
                        IF FilesOf(d).primary.exists
                        THEN FilesOf(d).primary ELSE @]
    /\ lg_pc' = [lg_pc EXCEPT ![d] = "tmp"]
    /\ UNCHANGED <<ShareFrame, lg_cum, lg_updates>>

\* lines 83-84: tmp.write_text(data)
LgTmpWrite(d) ==
    /\ lg_pc[d] = "tmp"
    /\ dir_files' = [dir_files EXCEPT ![DataDir(d)].tmp = RecordOf(d)]
    /\ lg_pc' = [lg_pc EXCEPT ![d] = "replace"]
    /\ UNCHANGED <<ShareFrame, lg_cum, lg_updates>>

\* line 85: tmp.replace(self.damage_file); FileNotFoundError when the .tmp
\* file is gone, which ends the call
LgReplace(d) ==
    /\ lg_pc[d] = "replace"
    /\ dir_files' = IF FilesOf(d).tmp.exists
                    THEN [dir_files EXCEPT ![DataDir(d)].primary = FilesOf(d).tmp,
                                           ![DataDir(d)].tmp = NoRecord]
                    ELSE dir_files
    /\ lg_pc' = [lg_pc EXCEPT ![d] = "idle"]
    /\ UNCHANGED <<ShareFrame, lg_cum, lg_updates>>

\* what _init_cumulative of device `d` loads: the primary, else the backup,
\* else zeros; the "device" key of the file is not looked at
LoadedBy(d) ==
    IF FilesOf(d).primary.exists THEN FilesOf(d).primary.D_phi_cum
    ELSE IF FilesOf(d).backup.exists THEN FilesOf(d).backup.D_phi_cum
    ELSE <<0>>

\* the service is restarted: every device builds a new DamageLogger
LgRestart ==
    /\ \A d \in Devices : lg_pc[d] = "idle"
    /\ lg_cum' = [d \in Devices |-> LoadedBy(d)]
    /\ UNCHANGED <<ShareFrame, lg_pc, lg_updates, dir_files>>

NextShare ==
    \/ \E d \in Devices : LgUpdate(d)
    \/ \E d \in Devices : LgReset(d)
    \/ \E d \in Devices : LgBackup(d)
    \/ \E d \in Devices : LgTmpWrite(d)
    \/ \E d \in Devices : LgReplace(d)
    \/ LgRestart

SpecShare == Init /\ [][NextShare]_vars

-----------------------------------------------------------------------------
(* Properties *)

\* the file holds a complete, valid JSON cumulative record
ValidRecord(f) ==
    LET d == TryLoadJson(f)
    IN  /\ d.ok
        /\ d.data.phi_deg_list # <<>>
        /\ Len(d.data.phi_deg_list) = Len(d.data.D_phi_cum)

\* the sum of a damage list

\* the record in the primary file
Persisted == TryLoadJson(damage_file).data

\* the last call was an update_cumulative that changed the bin layout
RemappedUpdate ==
    /\ op = "update"
    /\ pc # "down"
    /\ fatigue.D_phi # <<>>
    /\ Len(fatigue.D_phi) # Len(obs.pre.dmg)

\* the last call was an update_cumulative with a window of the stored bin count
PlainUpdate ==
    /\ op = "update"
    /\ pc # "down"
    /\ fatigue.D_phi # <<>>
    /\ Len(fatigue.D_phi) = Len(obs.pre.dmg)

\* the angle between two directions, 0..180 degrees
AngularDistance(a, b) ==
    LET d == Abs(a - b) % FullCircle
    IN  IF d <= FullCircle - d THEN d ELSE FullCircle - d

\* m is the maximum of dmg and a the centre of a bin that attains it
IsMaxAt(dmg, phi, m, a) ==
    /\ \A b \in 1..Len(dmg) : dmg[b] <= m
    /\ \E b \in 1..Len(dmg) : dmg[b] = m /\ phi[b] = a

\* C1: at every step of every run of updates, resets, crashes and restarts,
\* at least one of the primary and the backup file holds a complete, valid
\* cumulative record.
C1_OneValidFile == ValidRecord(damage_file) \/ ValidRecord(backup_file)

\* a crash cut the copy to the backup short during an update
C1_Witness ==
    /\ pc = "down"
    /\ obs.interrupted
    /\ backup_file.exists
    /\ ~ValidRecord(backup_file)

\* C2: a logger constructed after a crash inside the write protocol of an
\* update loads a valid record whose D_phi_cum is the vector before that
\* update or the vector after it.
C2_ReloadPreOrPost ==
    (pc = "idle" /\ op = "init" /\ obs.interrupted) =>
        /\ ValidRecord(damage_file)
        /\ Persisted.D_phi_cum = cum_damage
        /\ cum_damage \in {obs.pre.dmg, obs.post}

\* the crash fell before the rename: the vector before the update is loaded
C2_Witness ==
    /\ pc = "idle"
    /\ op = "init"
    /\ obs.interrupted
    /\ obs.pre.dmg # obs.post
    /\ cum_damage = obs.pre.dmg
    /\ tmp_file.exists

\* C3 as claimed: after three windows D_phi = [d, 0, ...] added to a zero
\* record the primary holds D_phi_cum[0] = 3d, and a logger constructed after
\* the primary was deleted restores 3d from the backup.
C3_RestoredIsLatest ==
    /\ (pc = "idle" /\ op = "update" /\ obs.run = 3) => Persisted.D_phi_cum[1] = 3
    /\ (pc = "idle" /\ op = "init" /\ obs.run = 3 /\ obs.deleted) => cum_damage[1] = 3

\* C3 as amended: the primary holds 3d; the backup is the copy taken before
\* the third write, so the logger constructed after the primary was deleted
\* restores 2d, and rewrites the primary with it.
C3_RestoredIsPrevious ==
    /\ (pc = "idle" /\ op = "update" /\ obs.run = 3) => Persisted.D_phi_cum[1] = 3
    /\ (pc = "idle" /\ op = "init" /\ obs.run = 3 /\ obs.deleted) =>
            /\ cum_damage[1] = 2
            /\ ValidRecord(damage_file)
            /\ Persisted.D_phi_cum = cum_damage

\* three unit windows, the primary deleted, a new logger constructed
C3_Witness == pc = "idle" /\ op = "init" /\ obs.run = 3 /\ obs.deleted

\* C4: a logger under construction uses the primary's record if the primary
\* is readable; otherwise, if the backup is readable, it uses the backup's
\* record and rewrites the primary from it; otherwise it starts from zeros
\* on the default bins and persists them.
C4_LoadOrder ==
    [][LET p == TryLoadJson(damage_file)
           b == TryLoadJson(backup_file)
       IN  /\ (pc = "down" /\ pc' # "down") =>
                IF p.ok
                THEN /\ pc' = "idle"
                     /\ cum_phi' = p.data.phi_deg_list
                     /\ cum_damage' = p.data.D_phi_cum
                     /\ UNCHANGED fileVars
                ELSE IF b.ok
                     THEN pc' = "repair_open"
                     ELSE /\ pc' = "wc"
                          /\ op' = "init"
                          /\ cum_phi' = [i \in 1..(FullCircle \div dphi_deg) |-> (i - 1) * dphi_deg]
                          /\ cum_damage' = [i \in 1..(FullCircle \div dphi_deg) |-> 0]
           /\ (pc = "repair_open" /\ pc' # "down") =>
                /\ pc' = "idle"
                /\ cum_phi' = b.data.phi_deg_list
                /\ cum_damage' = b.data.D_phi_cum
                /\ TryLoadJson(damage_file') = b
           /\ (pc = "tmp_written" /\ op = "init" /\ pc' # "down") =>
                /\ pc' = "idle"
                /\ ValidRecord(damage_file')
                /\ TryLoadJson(damage_file').data.D_phi_cum = cum_damage'
                /\ AllZero(cum_damage')
      ]_vars

\* the primary was deleted and has been rewritten from the backup
C4_Witness ==
    /\ pc = "idle"
    /\ op = "init"
    /\ obs.deleted
    /\ ValidRecord(backup_file)
    /\ TryLoadJson(damage_file) = TryLoadJson(backup_file)
    /\ ~AllZero(cum_damage)

\* C5: after a write of the .tmp file or a rename that raised, the primary
\* file holds, unchanged, the valid record of the last write that succeeded.
C5_FailedWriteKeepsPrimary ==
    obs.failed => (damage_file = File(obs.lastGood) /\ ValidRecord(damage_file))

\* an update whose write raised: the memory is ahead of the primary
C5_Witness ==
    /\ obs.failed
    /\ pc = "idle"
    /\ op = "update"
    /\ cum_damage # Persisted.D_phi_cum

\* C6 as claimed: every update_cumulative leaves every bin at least as large
\* as before, and every bin is >= 0 in every state.
C6_MonotoneEveryUpdate ==
    /\ (op = "update" /\ pc # "down") =>
            \A b \in 1..Min(Len(obs.pre.dmg), Len(cum_damage)) : cum_damage[b] >= obs.pre.dmg[b]
    /\ \A b \in 1..Len(cum_damage) : cum_damage[b] >= 0

\* C6 as amended: every update_cumulative that keeps the bin layout leaves
\* every bin at least as large as before, and every bin, in memory and in the
\* primary file, is >= 0 in every state.
C6_MonotoneSameLayout ==
    /\ (op = "update" /\ pc # "down" /\ ~RemappedUpdate) =>
            /\ Len(cum_damage) = Len(obs.pre.dmg)
            /\ \A b \in 1..Len(cum_damage) : cum_damage[b] >= obs.pre.dmg[b]
    /\ \A b \in 1..Len(cum_damage) : cum_damage[b] >= 0
    /\ ValidRecord(damage_file) =>
            \A b \in 1..Len(Persisted.D_phi_cum) : Persisted.D_phi_cum[b] >= 0

\* an update added damage to a record that already held some
C6_Witness ==
    /\ PlainUpdate
    /\ \E b \in 1..Len(cum_damage) : obs.pre.dmg[b] > 0
    /\ \E b \in 1..Len(cum_damage) : cum_damage[b] > obs.pre.dmg[b]

\* C7: update_cumulative with a window of the stored bin count adds the
\* window bin by bin; the D_cum_max and phi_deg_cum it puts into the returned
\* dict and into the primary file are the maximum of the new D_phi_cum and
\* the centre of a bin that attains it.
C7_UpdateAddsAndMax ==
    PlainUpdate =>
        /\ cum_phi = obs.pre.phi
        /\ Len(cum_damage) = Len(obs.pre.dmg)
        /\ \A b \in 1..Len(cum_damage) : cum_damage[b] = obs.pre.dmg[b] + fatigue.D_phi[b]
        /\ fatigue.D_phi_cum = cum_damage
        /\ IsMaxAt(cum_damage, cum_phi, fatigue.D_cum_max, fatigue.phi_deg_cum)
        /\ pc = "idle" =>
            /\ Persisted.D_phi_cum = cum_damage
            /\ IsMaxAt(cum_damage, cum_phi, Persisted.D_cum_max, Persisted.phi_deg_cum)

\* an update has returned and the maximum is in the second bin alone
C7_Witness ==
    /\ PlainUpdate
    /\ pc = "idle"
    /\ \A b \in 1..Len(cum_damage) : b # 2 => cum_damage[b] < cum_damage[2]
    /\ Persisted.phi_deg_cum = cum_phi[2]

\* C8: a logger constructed after a reset_cumulative that returned has
\* D_phi_cum zero at every bin.
C8_ResetThenReloadZero ==
    (pc = "idle" /\ op = "init" /\ obs.afterReset) =>
        (cum_damage # <<>> /\ AllZero(cum_damage))

\* the record held damage before the reset
C8_Witness ==
    /\ pc = "idle"
    /\ op = "init"
    /\ obs.afterReset
    /\ ~AllZero(obs.pre.dmg)

\* C9 as claimed: the remap keeps the sum of the persisted damage to within
\* one bin's worth (the largest old bin): the sum over the new bins, before
\* the window is added, differs from the sum over the old bins by no more.
C9_RemapPreservesSum ==
    RemappedUpdate =>
        Abs((SumOf(cum_damage) - SumOf(fatigue.D_phi)) - SumOf(obs.pre.dmg))
            <= MaxOf(obs.pre.dmg)

\* C10: an update with a window of another bin count takes the window's bin
\* centres as the layout, and each new bin is, before the window is added,
\* the value of an old bin whose centre is at the least angular distance.
C10_RemapNearest ==
    RemappedUpdate =>
        /\ cum_phi = fatigue.phi_deg_list
        /\ Len(cum_damage) = Len(cum_phi)
        /\ \A i \in 1..Len(cum_phi) :
              \E j \in 1..Len(obs.pre.phi) :
                 /\ \A k \in 1..Len(obs.pre.phi) :
                       AngularDistance(obs.pre.phi[j], cum_phi[i])
                           <= AngularDistance(obs.pre.phi[k], cum_phi[i])
                 /\ cum_damage[i] - fatigue.D_phi[i] = obs.pre.dmg[j]

\* a remap to more bins of a record whose bins differ
C10_Witness ==
    /\ RemappedUpdate
    /\ Len(cum_damage) > Len(obs.pre.dmg)
    /\ \E a, b \in 1..Len(obs.pre.dmg) : obs.pre.dmg[a] # obs.pre.dmg[b]

-----------------------------------------------------------------------------
(* C11 *)

\* an update that added a window to a record of the same bin count
SameLayoutUpdate ==
    /\ pc = "wc"
    /\ op = "update"
    /\ Len(obs.pre.phi) = Len(fatigue.phi_deg_list)

\* C11: the window's D_phi and the record's D_phi_cum share one layout in
\* which bin b has centre b*dphi, so an update adds each window value to the
\* cumulative bin that has the same centre angle
C11_SharedLayout ==
    SameLayoutUpdate =>
        \A i \in 1..Len(cum_phi) :
            /\ cum_phi[i] = (i - 1) * (FullCircle \div Len(cum_phi))
            /\ fatigue.phi_deg_list[i] = cum_phi[i]
            /\ cum_damage[i] = obs.pre.dmg[i] + fatigue.D_phi[i]

-----------------------------------------------------------------------------
(* C12 - C16: the analysis worker *)

\* C12: under every interleaving of submit with the worker's dequeues, every
\* submit returns with its chunk enqueued, and a chunk is discarded only by
\* a submit that found the queue full, which discards the oldest queued chunk
C12_SubmitEnqueues ==
    /\ wobs.lost = {}
    /\ ~wobs.notOldest
    /\ (wobs.discarded # {} => produced > QueueMaxsize)

\* C13: the queue never holds more than 3 chunks, submit never raises, and a
\* submit that has begun can always take its next step, whatever the worker
\* thread is doing
C13_QueueBounded ==
    /\ Len(queue) <= QueueMaxsize
    /\ spc \in {"s_idle", "s_full", "s_got"}
    /\ (spc = "s_full" => ENABLED SubmitGetNowait)
    /\ (spc = "s_got" => ENABLED SubmitPutAgain)

\* the queue is full, a submit is between its two queue operations, and the
\* worker thread has ended
C13_Witness ==
    /\ Len(queue) = QueueMaxsize
    /\ spc = "s_full"
    /\ wpc = "w_dead"

\* the worker thread has left the last window boundary it reached
BoundaryLeft ==
    /\ wobs.boundary # "none"
    /\ wpc \in {"w_get", "w_dead"}

\* C14: every window boundary the worker reaches ends with log_stats and
\* the analysis buffers cleared, also when a step of the window raises
C14_BoundaryClears ==
    BoundaryLeft => (log_stats = <<>> /\ analysis_buffers = <<>>)

\* C15: at every window boundary the cumulative update and persistence, the
\* CSV append and the IoT publish all occur, in that order
C15_BoundaryOrder ==
    BoundaryLeft =>
        \E i, j, k \in 1..Len(wobs.events) :
            /\ i < j /\ j < k
            /\ wobs.events[i] = "cumulative"
            /\ wobs.events[j] = "csv"
            /\ wobs.events[k] = "iot"

\* C16: whenever the worker is running and the time since the window start
\* is at least log_interval, the window boundary is eventually executed:
\* the window start is reset and the window is analysed and logged
C16_BoundaryEventually ==
    (aw_running /\ clock - log_window_start >= LogInterval)
        ~> (wobs.boundary = "closed" /\ wpc = "w_get")

-----------------------------------------------------------------------------
(* C17 - C20: the sampler and the devices *)

\* C17: after a read failure the sampler is stopped (running false and,
\* once the failure path has run, no task) and no chunk is delivered after
\* that, until a start() sets running again
C17_ReadFailureStops ==
    \A d \in Devices :
        dobs.err[d] = "read" =>
            /\ ~runner_running[d]
            /\ dobs.down[d] =>
                  /\ task[d] = 0
                  /\ ~dobs.late[d]

\* a read failure has run to its end with no call of the manager under way,
\* and the device had been started twice
C17_Witness ==
    /\ dobs.err[DevOrder[1]] = "read"
    /\ dobs.down[DevOrder[1]]
    /\ api.op = "none"
    /\ runs[DevOrder[1]] = 2

\* C18: the read-failure path never joins its own thread, and a stop()
\* issued after or concurrently with a read failure terminates without
\* waiting on a live sampler thread and leaves the sampler stopped, no task
C18_StopNeverWaits ==
    \A d \in Devices :
        /\ \A t \in Runs : rthread[d][t] \in {"r_fail", "r_teardown"} => ENABLED RunnerStep(d, t)
        /\ dobs.stopAfter[d] # "no" => ~dobs.joinedLive[d]
        /\ (dobs.stopAfter[d] # "no" /\ dobs.stopped[d]) =>
              (~runner_running[d] /\ thread[d] = 0 /\ task[d] = 0)

\* C18, amended: the read-failure path never joins its own thread; a stop()
\* issued when no sampler thread is alive any more does not wait; a stop()
\* issued while a sampler thread is still alive waits for it only as long
\* as the join lasts, the thread never waiting for stop(); every such stop
\* leaves the sampler stopped with no thread and no task
C18_StopAfterFailure ==
    \A d \in Devices :
        /\ \A t \in Runs : rthread[d][t] \in {"r_fail", "r_teardown"} => ENABLED RunnerStep(d, t)
        /\ dobs.stopAfter[d] = "after" => ~dobs.joinedLive[d]
        /\ (api.pc = "s_joining" /\ ApiDev = d) => ENABLED StopJoinReturn
        /\ (dobs.stopAfter[d] # "no" /\ dobs.stopped[d]) =>
              (~runner_running[d] /\ thread[d] = 0 /\ task[d] = 0)

\* a stop() called while the failure path was running has returned, having
\* joined the live thread
C18_Witness ==
    /\ dobs.stopAfter[DevOrder[1]] = "during"
    /\ dobs.joinedLive[DevOrder[1]]
    /\ dobs.stopped[DevOrder[1]]

\* C19: a sampling error of one device stops only that device: when
\* start_all is over, every device that had no error of its own is sampling
C19_OthersStarted ==
    dobs.startAll \in {"returned", "raised"} =>
        \A d \in Devices : dobs.err[d] = "none" => (runner_running[d] /\ task[d] # 0)

\* C20: after a sampling error has stopped a device's sampler, get_status
\* reports the device as not running, and a start of the device that
\* follows starts sampling again
C20_StatusAndRestart ==
    \A d \in Devices :
        /\ (dobs.err[d] # "none" /\ dobs.down[d] /\ api.op = "none") => ~GetStatus[d].running
        /\ dobs.restart[d] # "ignored"
-----------------------------------------------------------------------------
(* C21 - C23: the stream path *)

\* the FIR filter over the whole input of a channel, zeros before its first
\* sample, and every M-th filtered sample taken
FilterThenDecimate(x) ==
    IF decimation <= 1 \/ x = <<>>
       THEN x
       ELSE EveryMth(ConvValid(Zeros(Len(KernelInUse) - 1) \o x, KernelInUse), decimation)

\* the outputs agree with the reference past the edge transient
AgreesPastTransient(y, ref) ==
    /\ Len(y) = Len(ref)
    /\ \A j \in 1..Len(ref) :
          (j - 1) * decimation >= Len(KernelInUse) - 1 => y[j] = ref[j]

\* C21: for every decimation factor and every sequence of chunks, the
\* concatenated outputs of the decimator are the FIR filter applied to the
\* concatenated input with every M-th sample taken, apart from the
\* transient of T-1 samples at the very start.
C21_DecimatorContinuous ==
    \A c \in Channels : AgreesPastTransient(sobs.y_out[c], FilterThenDecimate(sobs.x_in[c]))

\* buf holds the newest samples of all that were appended, at most cap of them
NewestOf(buf, all, cap) ==
    /\ Len(buf) <= cap
    /\ buf = LastN(all, cap)

\* C22 as stated: each stream buffer (decimated acceleration, displacement)
\* holds at most fs_eff x window_s samples, the most recent ones in arrival
\* order.
C22_WindowCapacity ==
    \A c \in Channels :
        /\ NewestOf(buffers[c], sobs.acc_all[c], n_limit)
        /\ NewestOf(disp_buffers[c], sobs.disp_all[c], n_limit)

\* C22 as amended: each stream buffer holds at most
\* max(fs_eff x window_s, samples_per_read) samples, the most recent ones in
\* arrival order.
C22_StreamBufferNewest ==
    \A c \in Channels :
        /\ NewestOf(buffers[c], sobs.acc_all[c], Max(n_limit, samples_per_read))
        /\ NewestOf(disp_buffers[c], sobs.disp_all[c], Max(n_limit, samples_per_read))

\* both buffers of a channel have dropped samples, in a configuration whose
\* window is not shorter than a chunk
C22_Witness ==
    \E c \in Channels :
        /\ n_limit >= samples_per_read
        /\ Len(sobs.acc_all[c]) > Len(buffers[c])
        /\ Len(sobs.disp_all[c]) > Len(disp_buffers[c])
        /\ Len(buffers[c]) = n_limit

\* C23: a snapshot taken while the sampler appends is not torn: all its
\* channels hold the samples of the same chunks.
C23_SnapshotNotTorn ==
    kpc = "k_done" =>
        \A c1, c2 \in Channels : sobs.seen[c1] = sobs.seen[c2]

-----------------------------------------------------------------------------
(* C24: retention *)

\* the months a folder name of the form YYYYMM can stand for
MonthNames == [year : 2024..2025, month : 0..99]

\* the folder is named YYYYMM and its 12*Y+M is less than the current
\* 12*Y+M minus (R-1)
TooOld(e) ==
    /\ e.dir
    /\ \E d \in MonthNames :
          /\ e.name = StrftimeYm(d)
          /\ 12 * d.year + d.month
                < (12 * today.year + today.month) - (retention_months - 1)

-----------------------------------------------------------------------------
(* C25, C26: the wind service *)

\* C25: a failed read or connect never ends the loop while the service is
\* running; the service is marked disconnected, connect is called again in
\* the next tick, and a later sample marks it connected and is recorded.
C25_FailureKeepsLoop ==
    /\ wind_pc = "l_none" => ~wind_running
    /\ (wind_pc = "l_sleep" /\ wind_obs.read = "failed") => ~wind_connected
    /\ (wind_pc = "l_read" /\ wind_obs.failed) => wind_obs.tried
    /\ (wind_pc \in {"l_stats", "l_sleep"} /\ wind_obs.read = "ok") =>
          /\ wind_connected
          /\ wind_last_sample = wind_obs.all[Len(wind_obs.all)]
          /\ wind_window[Len(wind_window)] = wind_last_sample

\* a sample is recorded in the tick after a failed read
C25_Witness ==
    /\ wind_pc = "l_sleep"
    /\ wind_obs.failed
    /\ wind_obs.tried
    /\ wind_obs.read = "ok"
    /\ wind_connected

C27_RainflowHalfCycles ==
    (rf_pc \in {"fd_sum", "fd_done"} /\ Len(rf_sig) >= 2) =>
        /\ Len(rf_ranges) = Len(rf_counts)
        /\ \A i \in 1..Len(rf_counts) : rf_counts[i] = HalfCycleCount
        /\ \A i \in 1..Len(rf_ranges) : rf_ranges[i] >= 0
        /\ SumOf(rf_counts) = (Len(rf_tp) - 1) * HalfCycleCount

\* a signal of four turning points, one of them merged away by the while
\* loop and the rest counted by the residual loop
C27_Witness ==
    /\ rf_pc = "fd_sum"
    /\ Len(rf_tp) = 4
    /\ Len(rf_stack) = 3
    /\ Len(rf_ranges) = 3

InRange(sa2) == 2 * SaMin <= sa2 /\ sa2 <= 2 * SaMax

\* the half cycles of the direction and the terms the claim lets them add
RECURSIVE TermsInRange(_, _, _)
TermsInRange(ranges, counts, i) ==
    IF i > Len(ranges)
    THEN <<>>
    ELSE (IF InRange(ranges[i])
          THEN <<[n |-> counts[i], Ni |-> CyclesAt(ranges[i])]>>
          ELSE <<>>) \o TermsInRange(ranges, counts, i + 1)

\* C28: a half cycle of amplitude Sa adds counts / N(Sa) to the damage of
\* its direction if and only if 48 <= Sa <= 3999, a half cycle outside that
\* range adds nothing, and asme_sn_cycles is infinite for Sa <= 0
C28_DamageOnlyInRange ==
    /\ rf_pc = "fd_done" => rf_terms = TermsInRange(rf_ranges, rf_counts, 1)
    /\ \A sa2 \in {0 - 2 * SaMin, 0 - 1, 0} : AsmeSnCycles(sa2) = Infinite

\* a direction with a half cycle on each limit and one beyond each limit
C28_Witness ==
    /\ rf_pc = "fd_done"
    /\ \E i \in 1..Len(rf_ranges) : rf_ranges[i] = 2 * SaMin
    /\ \E i \in 1..Len(rf_ranges) : rf_ranges[i] = 2 * SaMin - 1
    /\ \E i \in 1..Len(rf_ranges) : rf_ranges[i] = 2 * SaMax + 1
    /\ Len(rf_terms) >= 1

\* C29: a control message changes the remote stream-enabled flag only when
\* the topic prefix before /control/stream equals the payload's display_name
\* exactly and that name is in the allow-list of display names; every other
\* control message, also with an empty allow-list or an empty prefix, leaves
\* the flag as it was
C29_OnlyAllowListed ==
    [][stream_enabled_remote' # stream_enabled_remote =>
          LET prefix == SplitFirst(iot_msg'.topic, Ctl)
          IN  /\ ~iot_msg'.display_name.none
              /\ iot_msg'.display_name.v = prefix
              /\ prefix \in control_display_names]_vars

FlagOff == ~stream_enabled_local /\ ~stream_enabled_remote

PublishCalled == pub_pc = "p_idle" /\ pub_pc' # "p_idle"

\* C30: a publish to a topic containing /stream/ called while the
\* stream-enabled flag is off emits nothing to MQTT or to the JSONL log, and
\* a publish to another topic goes to the sink whatever the flag is
C30_StreamGated ==
    [][/\ (PublishCalled /\ Contains(pub_topic', StreamSeg) /\ FlagOff) =>
              (pub_pc' = "p_suppressed" /\ pub_out' = {})
       /\ pub_pc = "p_suppressed" => pub_out' = {}
       /\ (PublishCalled /\ ~Contains(pub_topic', StreamSeg)) =>
              pub_pc' = "p_sink"]_vars

\* a stream publish to MQTT that found the flag off and returns
C30_Witness ==
    /\ pub_pc = "p_suppressed"
    /\ Contains(pub_topic, StreamSeg)
    /\ iot_type = "mqtt"
    /\ FlagOff
    /\ pub_out = {}

\* C31: publish never propagates an exception, and when the sink fails a
\* record with the error and the payload is in the JSONL log when the call
\* returns
C31_FailureLogged ==
    /\ pub_pc # "p_raised"
    /\ pub_pc = "p_handled" => ErrorRecord(pub_topic) \in pub_out

\* C31, amended: publish never propagates an exception; when the sink fails
\* the call returns with the error record written to the JSONL log, or with
\* nothing written when the log cannot be written either
C31_FailureSwallowed ==
    /\ pub_pc # "p_raised"
    /\ pub_pc = "p_handled" => pub_out \in {{ErrorRecord(pub_topic)}, {}}
    /\ pub_pc \in {"p_except", "p_handled"} =>
          \A o \in pub_out : o.what = "error"

\* a failed MQTT publish whose error record is in the log
C31_Witness ==
    /\ pub_pc = "p_handled"
    /\ iot_type = "mqtt"
    /\ pub_out = {ErrorRecord(pub_topic)}

\* the configured rate as a number, when it is one
Configured(value) == value.kind \in {"number", "text"}

\* C32: for every configured pair of rates, fs_hw = 1600 and fs_eff = the
\* requested rate when the requested rate is below 1600, fs_hw = the
\* requested rate otherwise, and fs_eff never exceeds fs_hw
C32_RateValidation ==
    Configured(rate_cfg.sample_rate) =>
        LET requested == rate_cfg.sample_rate.v
        IN  /\ requested < MinHardwareRate =>
                  /\ sys_cfg.sample_rate = MinHardwareRate
                  /\ sys_cfg.effective_sample_rate = requested
            /\ requested >= MinHardwareRate =>
                  sys_cfg.sample_rate = requested
            /\ sys_cfg.effective_sample_rate <= sys_cfg.sample_rate

\* C32, amended: the rule of the claim holds for a requested rate of at
\* least 1; a requested rate that is missing, not a number, zero or negative
\* is replaced by 1600, and fs_eff is then the configured effective rate, or
\* 1600 when that is missing, zero or above 1600
C32_RateValidationPositive ==
    LET given == Configured(rate_cfg.sample_rate) /\ rate_cfg.sample_rate.v >= 1
        requested == IF given THEN rate_cfg.sample_rate.v ELSE 1600
        usable == /\ Configured(rate_cfg.effective_sample_rate)
                  /\ rate_cfg.effective_sample_rate.v # 0
                  /\ rate_cfg.effective_sample_rate.v <= requested
    IN  /\ requested < 1600 =>
              /\ sys_cfg.sample_rate = 1600
              /\ sys_cfg.effective_sample_rate = requested
        /\ requested >= 1600 =>
              /\ sys_cfg.sample_rate = requested
              /\ sys_cfg.effective_sample_rate =
                    IF usable THEN rate_cfg.effective_sample_rate.v
                    ELSE requested
        /\ sys_cfg.effective_sample_rate <= sys_cfg.sample_rate

\* a requested rate of zero with an effective rate above 1600: the clamp
\* has acted on the default hardware rate
C32_Witness ==
    /\ rate_cfg.sample_rate = Number(0)
    /\ rate_cfg.effective_sample_rate = Number(2 * MinHardwareRate)
    /\ sys_cfg = [sample_rate |-> 1600, effective_sample_rate |-> 1600]

HeaderCount(rows) == Cardinality({i \in 1..Len(rows) : rows[i] = "header"})

C34_ResetShowsZero ==
    xobs.after_reset =>
        /\ AllZero(GetFatigueSnapshot.D_phi_cum)
        /\ GetFatigueSnapshot.Dmax = 0
        /\ GetFatigueSnapshot.D_phi = <<>>

\* C38: a reset_cumulative that runs together with an update_cumulative is
\* atomic with respect to it: once both have returned, the record in memory
\* and the persisted one are all zeros or exactly the window's D_phi
C38_ResetAtomic ==
    (/\ xobs.overlap
     /\ upc \in {"u_return", "u_done", "u_idle"}
     /\ xpc # "x_write") =>
        LET serial == {DefaultBins(dphi_deg).dmg, fatigue.D_phi}
        IN  /\ cum_damage \in serial
            /\ Loads(damage_file.text).data.D_phi_cum \in serial

\* C36: at a window boundary the channel-0 and channel-1 acceleration given
\* to fatigue_damage is multiplied by 9.80665 for each channel whose unit is
\* "g" and left as it is otherwise, as the input of the displacement window
\* statistics of the same window is
C36_FatigueInputConverted ==
    bpc = "b_end" =>
        /\ fd_in = <<ToMs2(channels_cfg[1], buffers01[1]),
                     ToMs2(channels_cfg[2], buffers01[2])>>
        /\ fd_in = disp_in

\* C35: while the analysis worker is running, every chunk in the queue that
\* no later submit discards is eventually dequeued by the worker thread and
\* accumulated, also after window boundaries: every queued chunk eventually
\* leaves the queue
C35_ChunksConsumed ==
    \A c \in 1..MaxChunks :
        (aw_running /\ c \in Range(queue)) ~> (c \notin Range(queue))

\* C37: with two or more devices, each device's persisted cumulative record
\* is written only by that device's DamageLogger: the record a device loads
\* after a restart carries that device's name and values, and no two devices
\* are inside the write protocol on the same primary, backup or .tmp file
C37_OwnRecord ==
    /\ \A d \in Devices :
          FilesOf(d).primary.exists => FilesOf(d).primary.device = d
    /\ \A d, e \in Devices :
          (d # e /\ lg_pc[d] # "idle" /\ lg_pc[e] # "idle")
              => DataDir(d) # DataDir(e)

\* C39: a sampler thread left over from a stopped run observes the stop: it
\* never delivers a chunk once start() has begun the next run, so that at
\* most one sampler thread of a device is delivering at any time
C39_LeakedThreadSilent ==
    [][\A d \in Devices : \A t \in Runs :
          (rthread[d][t] = "r_read" /\ rthread'[d][t] = "r_loop")
              => t = runs[d]]_vars

\* C40: the read-failure teardown of a sampler thread touches only its own
\* run: it sets running to false only for the run it belongs to and it
\* stops and closes only the Task that its own run created
C40_TeardownOwnRun ==
    [][\A d \in Devices : \A t \in Runs :
          /\ (rthread[d][t] = "r_fail" /\ rthread'[d][t] = "r_teardown"
                 /\ runner_running[d] /\ ~runner_running'[d])
                => t = runs[d]
          /\ (rthread[d][t] = "r_teardown" /\ rthread'[d][t] = "r_ended"
                 /\ task[d] # 0)
                => task[d] = t]_vars

====
